---- MODULE Spec2Model ----
(***************************************************************************)
(* Medi_Sure: a model of the orchestration code of the prescription        *)
(* analyser.                                                               *)
(*                                                                         *)
(*   backend/dataset_loader.py        DatasetLoader (tables, identity      *)
(*                                    resolution, interaction lookup)      *)
(*   backend/ocr_reader.py            EnhancedOCRReader (OCR cascade)      *)
(*   backend/medical_nlp_extractor.py MedicalNLPExtractor (extractors,     *)
(*                                    fusion, attribute binding)           *)
(*   backend/main.py                  dosage advice, alternatives, overall *)
(*                                    risk                                 *)
(*                                                                         *)
(* Python strings are TLA+ strings; lower(), strip(), upper() and find()   *)
(* are computed character by character.  Confidences are kept in           *)
(* hundredths (0.6 is 60); an average is kept as the pair <<sum, count>>   *)
(* and compared by cross-multiplication, so no rounding is introduced.     *)
(***************************************************************************)
EXTENDS Integers, Sequences, FiniteSets, TLC

VARIABLES
    \* ---- DatasetLoader (dataset_loader.py)
    ld_pc,          \* "new" before load_datasets has run, "ready" after
    hoddi_data,     \* the interaction table: a sequence of rows
    drug_mapping,   \* the name -> DrugBank id dict, in insertion order
    ld_call,        \* the last lookup made: operation, arguments, result
    \* ---- EnhancedOCRReader (ocr_reader.py)
    ocr_pc,         \* position inside extract_text_from_image
    ocr_engines,    \* paddle_ocr / watson_ocr / tesseract_available
    ocr_image,      \* what the call was given
    ocr_invoked,    \* the engines called so far in this call, in order
    ocr_produced,   \* the results the engines returned in this call
    ocr_results,    \* the candidate pool (the list ocr_results)
    ocr_return,     \* what the call returned or raised
    \* ---- MedicalNLPExtractor (medical_nlp_extractor.py)
    nlp_pc,         \* position inside extract_medical_entities
    nlp_models,     \* which models __init__ managed to load
    nlp_text,       \* the prescription text
    extraction_results, \* the list extraction_results
    combined_drugs, \* the list returned by _combine_drug_extractions
    \* ---- the analysis helpers of main.py
    an_pc,          \* "called" while a helper runs, "returned" after
    an_call,        \* the helper called and its arguments
    an_result,      \* what the helper returned
    \* ---- the endpoints of main.py
    api_pc,         \* position inside the endpoint that serves the request
    api_request,    \* the request: endpoint, age, content type
    api_locals,     \* temp_file, temp_file_path and extracted_text
    api_file,       \* the temporary file on disk: "none", "exists", "deleted"
    api_pending,    \* the exception or the response on its way out
    api_response,   \* what the caller receives
    \* ---- MedicalNERExtractor (nlp_extractor.py)
    ner_pc,         \* where extract_drug_info is: "idle" before the call, "returned" after
    ner_call,       \* the text and what the GatorTron request does
    ner_trace,      \* the engines run by the call, in order
    ner_result,     \* what extract_drug_info returned or raised
    \* ---- dosage_system/backend.py
    DRUG_DATABASE,  \* the module-level dict
    ds_calls        \* the calls of calculate_dosage made so far, with results

ldVars  == <<ld_pc, hoddi_data, drug_mapping, ld_call>>
ocrVars == <<ocr_pc, ocr_engines, ocr_image, ocr_invoked, ocr_produced,
             ocr_results, ocr_return>>
nlpVars == <<nlp_pc, nlp_models, nlp_text, extraction_results, combined_drugs>>
anVars  == <<an_pc, an_call, an_result>>
apiVars == <<api_pc, api_request, api_locals, api_file, api_pending,
             api_response>>
nerVars == <<ner_pc, ner_call, ner_trace, ner_result>>
dsVars  == <<DRUG_DATABASE, ds_calls>>
vars    == <<ldVars, ocrVars, nlpVars, anVars, apiVars, nerVars, dsVars>>

(***************************************************************************)
(* Python's None.                                                          *)
(***************************************************************************)
None == [py |-> "None"]

(***************************************************************************)
(* Strings                                                                 *)
(***************************************************************************)
UpperLetters == "ABCDEFGHIJKLMNOPQRSTUVWXYZ"
LowerLetters == "abcdefghijklmnopqrstuvwxyz"

CharAt(s, i) == SubSeq(s, i, i)

LowerMap ==
    [c \in {CharAt(UpperLetters, i) : i \in 1..Len(UpperLetters)} |->
        CharAt(LowerLetters,
               CHOOSE i \in 1..Len(UpperLetters) : CharAt(UpperLetters, i) = c)]

UpperMap ==
    [c \in {CharAt(LowerLetters, i) : i \in 1..Len(LowerLetters)} |->
        CharAt(UpperLetters,
               CHOOSE i \in 1..Len(LowerLetters) : CharAt(LowerLetters, i) = c)]

LowerCh(c) == IF c \in DOMAIN LowerMap THEN LowerMap[c] ELSE c
UpperCh(c) == IF c \in DOMAIN UpperMap THEN UpperMap[c] ELSE c

RECURSIVE Lower(_)
\* str.lower()
Lower(s) ==
    IF Len(s) = 0 THEN ""
    ELSE LowerCh(CharAt(s, 1)) \o Lower(SubSeq(s, 2, Len(s)))

RECURSIVE Upper(_)
\* str.upper()
Upper(s) ==
    IF Len(s) = 0 THEN ""
    ELSE UpperCh(CharAt(s, 1)) \o Upper(SubSeq(s, 2, Len(s)))

IsSpace(c) == c \in {" ", "\t", "\n"}

RECURSIVE LStrip(_)
LStrip(s) ==
    IF Len(s) > 0 /\ IsSpace(CharAt(s, 1)) THEN LStrip(SubSeq(s, 2, Len(s)))
    ELSE s

RECURSIVE RStrip(_)
RStrip(s) ==
    IF Len(s) > 0 /\ IsSpace(CharAt(s, Len(s)))
    THEN RStrip(SubSeq(s, 1, Len(s) - 1))
    ELSE s

\* str.strip()
Strip(s) == RStrip(LStrip(s))

\* str.find(sub): the 0-based offset of the first occurrence, or -1
Find(s, sub) ==
    LET hits == {i \in 1..(Len(s) - Len(sub) + 1) :
                    SubSeq(s, i, i + Len(sub) - 1) = sub}
    IN  IF hits = {} THEN -1
        ELSE (CHOOSE i \in hits : \A j \in hits : i <= j) - 1

\* sub in s
Contains(s, sub) == Find(s, sub) # -1

RECURSIVE Join(_, _)
\* sep.join(parts)
Join(sep, parts) ==
    IF Len(parts) = 0 THEN ""
    ELSE IF Len(parts) = 1 THEN parts[1]
    ELSE parts[1] \o sep \o Join(sep, Tail(parts))

\* all sequences over S of length at most n
SeqsUpTo(S, n) == UNION {[1..k -> S] : k \in 0..n}

(***************************************************************************)
(* DatasetLoader                                                           *)
(***************************************************************************)
\* The longest drug list handed to get_interaction.
MaxDrugs == 2

\* data/drug_mapping.json as json.load returns it: (name, id) pairs in file
\* order.  data/hoddi_sample.csv as pandas reads it: rows in file order; a
\* file holding only the header line is the empty frame.
MappingFiles ==
    { <<>>,
      << <<"aspirin", "DB00945">>, <<"warfarin", "DB00682">> >>,
      << <<"warfarin sodium", "DB00682">>, <<"aspirin", "DB00945">>,
         <<"warfarin", "DB00682">> >>,
      << <<"warfarin sodium", "DB01418">>, <<"warfarin", "DB00682">>,
         <<"aspirin", "DB00945">> >> }

Row(a, b, sev, desc) ==
    [drug1_drugbank_id |-> a, drug2_drugbank_id |-> b,
     severity |-> sev, description |-> desc]

HoddiFiles ==
    { <<>>,
      << Row("DB00945", "DB00682", "Severe", "bleeding risk") >>,
      << Row("DB00682", "DB00945", "Moderate", "monitor INR") >>,
      << Row("DB00682", "DB00945", "Moderate", "monitor INR"),
         Row("DB00945", "DB00682", "Severe", "bleeding risk") >> }

\* The drug names a caller passes.
DrugNames == {"aspirin", "Warfarin ", "warf", "Xyz", "Xyz "}

\* key in self.drug_mapping
MappingHas(mapping, key) == \E i \in 1..Len(mapping) : mapping[i][1] = key

\* self.drug_mapping[key]
MappingGet(mapping, key) ==
    mapping[CHOOSE i \in 1..Len(mapping) : mapping[i][1] = key][2]

\* a resolution that runs the fuzzy pass before the exact lookup
get_drugbank_id_fuzzy_first(mapping, drug_name) ==
    LET drug_name_lower == Strip(Lower(drug_name))
        fuzzy == {i \in 1..Len(mapping) :
                    \/ Contains(mapping[i][1], drug_name_lower)
                    \/ Contains(drug_name_lower, mapping[i][1])}
    IN  IF fuzzy # {}
        THEN mapping[CHOOSE i \in fuzzy : \A j \in fuzzy : i <= j][2]
        ELSE "DB_UNKNOWN_" \o Upper(drug_name)

\* a resolution that gives an unmapped name the identifier of the first
\* table entry
get_drugbank_id_first_entry(mapping, drug_name) ==
    LET drug_name_lower == Strip(Lower(drug_name))
        fuzzy == {i \in 1..Len(mapping) :
                    \/ Contains(mapping[i][1], drug_name_lower)
                    \/ Contains(drug_name_lower, mapping[i][1])}
    IN  IF fuzzy # {}
        THEN mapping[CHOOSE i \in fuzzy : \A j \in fuzzy : i <= j][2]
        ELSE IF Len(mapping) > 0 THEN mapping[1][2]
        ELSE "DB_UNKNOWN_" \o Upper(drug_name)

\* get_drugbank_id(drug_name)
get_drugbank_id(mapping, drug_name) ==
    LET drug_name_lower == Strip(Lower(drug_name))
        fuzzy == {i \in 1..Len(mapping) :
                    \/ Contains(mapping[i][1], drug_name_lower)
                    \/ Contains(drug_name_lower, mapping[i][1])}
    IN  IF MappingHas(mapping, drug_name_lower)
        THEN MappingGet(mapping, drug_name_lower)
        ELSE IF fuzzy # {}
        THEN mapping[CHOOSE i \in fuzzy : \A j \in fuzzy : i <= j][2]
        ELSE "DB_UNKNOWN_" \o Upper(drug_name)

\* a lookup that reads the table in the order of its arguments only
check_one_direction(hoddi, mapping, drug1, drug2) ==
    IF Len(hoddi) = 0 THEN "Dataset not available"
    ELSE
      LET hit == {i \in 1..Len(hoddi) :
                    /\ hoddi[i].drug1_drugbank_id = get_drugbank_id(mapping, drug1)
                    /\ hoddi[i].drug2_drugbank_id = get_drugbank_id(mapping, drug2)}
      IN  IF hit # {}
          THEN LET first == hoddi[CHOOSE i \in hit : \A j \in hit : i <= j]
               IN  first.severity \o ": " \o first.description
          ELSE "None"

\* check_drug_interaction(drug1, drug2)
check_drug_interaction(hoddi, mapping, drug1, drug2) ==
    IF Len(hoddi) = 0 THEN "Dataset not available"
    ELSE
      LET drug1_id == get_drugbank_id(mapping, drug1)
          drug2_id == get_drugbank_id(mapping, drug2)
          hit == {i \in 1..Len(hoddi) :
                    \/ /\ hoddi[i].drug1_drugbank_id = drug1_id
                       /\ hoddi[i].drug2_drugbank_id = drug2_id
                    \/ /\ hoddi[i].drug1_drugbank_id = drug2_id
                       /\ hoddi[i].drug2_drugbank_id = drug1_id}
      IN  IF hit # {}
          THEN LET first == hoddi[CHOOSE i \in hit : \A j \in hit : i <= j]
               IN  first.severity \o ": " \o first.description
          ELSE "None"

RECURSIVE InteractionsOf(_, _, _, _, _)
\* the list interactions built for drugs[i] by the loop over j >= from
InteractionsOf(hoddi, mapping, drugs, i, from) ==
    IF from > Len(drugs) THEN <<>>
    ELSE
      LET interaction ==
              check_drug_interaction(hoddi, mapping, drugs[i], drugs[from])
      IN  (IF i # from /\ interaction # "None"
           THEN << "with " \o drugs[from] \o ": " \o interaction >>
           ELSE <<>>)
          \o InteractionsOf(hoddi, mapping, drugs, i, from + 1)

\* get_interaction(drugs)
get_interaction(hoddi, mapping, drugs) ==
    [i \in 1..Len(drugs) |->
        LET interactions == InteractionsOf(hoddi, mapping, drugs, i, 1)
        IN  [drug        |-> Strip(drugs[i]),
             drugbank_id |-> get_drugbank_id(mapping, drugs[i]),
             interaction |-> IF Len(interactions) > 0
                             THEN Join("; ", interactions)
                             ELSE "None"]]

NoCall == [op |-> "none"]

\* DatasetLoader.__init__ -> load_datasets.  Each file is missing, unreadable
\* (the read raises, and the except clause empties both tables) or read.
load_datasets ==
    /\ ld_pc = "new"
    /\ \E hoddi_file \in {"missing", "unreadable", "read"},
          mapping_file \in {"missing", "unreadable", "read"},
          rows \in HoddiFiles, mapping \in MappingFiles :
          IF hoddi_file = "unreadable" \/ mapping_file = "unreadable"
          THEN /\ hoddi_data' = <<>>
               /\ drug_mapping' = <<>>
          ELSE /\ hoddi_data' = IF hoddi_file = "read" THEN rows ELSE <<>>
               /\ drug_mapping' = IF mapping_file = "read" THEN mapping ELSE <<>>
    /\ ld_pc' = "ready"
    /\ UNCHANGED <<ld_call, ocrVars, nlpVars, anVars, apiVars, nerVars, dsVars>>

\* a caller runs get_drugbank_id(drug_name)
CallGetDrugbankId ==
    /\ ld_pc = "ready"
    /\ \E drug_name \in DrugNames :
          ld_call' = [op |-> "get_drugbank_id",
                      drugs |-> <<drug_name>>,
                      result |-> get_drugbank_id(drug_mapping, drug_name)]
    /\ UNCHANGED <<ld_pc, hoddi_data, drug_mapping, ocrVars, nlpVars, anVars, apiVars, nerVars, dsVars>>

\* a caller runs check_drug_interaction(drug1, drug2)
CallCheckDrugInteraction ==
    /\ ld_pc = "ready"
    /\ \E drug1 \in DrugNames, drug2 \in DrugNames :
          ld_call' = [op |-> "check_drug_interaction",
                      drugs |-> <<drug1, drug2>>,
                      result |-> check_drug_interaction(hoddi_data,
                                     drug_mapping, drug1, drug2)]
    /\ UNCHANGED <<ld_pc, hoddi_data, drug_mapping, ocrVars, nlpVars, anVars, apiVars, nerVars, dsVars>>

\* a caller runs get_interaction(drugs)
CallGetInteraction ==
    /\ ld_pc = "ready"
    /\ \E drugs \in SeqsUpTo(DrugNames, MaxDrugs) :
          ld_call' = [op |-> "get_interaction",
                      drugs |-> drugs,
                      result |-> get_interaction(hoddi_data, drug_mapping,
                                                 drugs)]
    /\ UNCHANGED <<ld_pc, hoddi_data, drug_mapping, ocrVars, nlpVars, anVars, apiVars, nerVars, dsVars>>

(***************************************************************************)
(* EnhancedOCRReader                                                       *)
(***************************************************************************)
\* The most lines (PaddleOCR) or word boxes (Tesseract) an engine reports.
MaxLines == 2

PaddleLineMin      == 50   \* a PaddleOCR line is kept when confidence > 0.5
PaddleThreshold    == 60   \* paddle_result['confidence'] > 0.6
WatsonConfidence   == 80   \* 'confidence': 0.8
TesseractWordMin   == 30   \* int(conf) > 30
TesseractThreshold == 40   \* tesseract_result['confidence'] > 0.4

\* A confidence is the exact quotient num/den of hundredths.
Conf(num, den) == [num |-> num, den |-> den]
\* c >= t/100: a threshold that equality reaches as well
ConfAtLeast(c, t) == c.num >= t * c.den
\* c > t/100
ConfAbove(c, t) == c.num > t * c.den
\* a < b
ConfLess(a, b) == a.num * b.den < b.num * a.den

RECURSIVE SumConf(_)
SumConf(items) ==
    IF Len(items) = 0 THEN 0 ELSE items[1].confidence + SumConf(Tail(items))

RECURSIVE ConcatText(_)
\* the loop "full_text += text + ' '"
ConcatText(items) ==
    IF Len(items) = 0 THEN ""
    ELSE items[1].text \o " " \o ConcatText(Tail(items))

\* What the PaddleOCR engine answers when it is run: it raises, it finds
\* nothing, or it reports lines (text, confidence).
PaddleLines == {[text |-> "Rx", confidence |-> c] : c \in {45, 50, 55, 60, 65, 90}}
PaddleResponses ==
    {[kind |-> "raises"], [kind |-> "empty"]}
    \cup {[kind |-> "lines", lines |-> ls] :
            ls \in SeqsUpTo(PaddleLines, MaxLines) \ {<<>>}}

\* _extract_with_paddle_ocr(image)
extract_with_paddle_ocr(paddle_ocr, resp) ==
    IF ~paddle_ocr THEN None
    ELSE IF resp.kind = "raises" THEN None
    ELSE IF resp.kind = "empty" THEN None
    ELSE
      LET extracted_lines ==
              SelectSeq(resp.lines, LAMBDA l : l.confidence > PaddleLineMin)
          line_count == Len(extracted_lines)
      IN  IF line_count = 0 THEN None
          ELSE [text       |-> Strip(ConcatText(extracted_lines)),
                confidence |-> Conf(SumConf(extracted_lines), line_count),
                method     |-> "PaddleOCR"]

\* What the Watson service answers: an ApiException, another exception, a
\* response without text, or text.
WatsonResponses ==
    {[kind |-> "api_error"], [kind |-> "error"],
     [kind |-> "text", text |-> ""], [kind |-> "text", text |-> "Rx "]}

\* _extract_with_watson(image_bytes)
extract_with_watson(watson_ocr, resp) ==
    IF ~watson_ocr THEN None
    ELSE IF resp.kind \in {"api_error", "error"} THEN None
    ELSE IF Strip(resp.text) = "" THEN None
    ELSE [text       |-> Strip(resp.text),
          confidence |-> Conf(WatsonConfidence, 1),
          method     |-> "IBM Watson"]

\* What Tesseract answers: it raises, or it reports boxes (conf, text); a
\* box that holds no word has conf -1.
TesseractBoxes ==
    {[text |-> "", confidence |-> 0 - 1], [text |-> " ", confidence |-> 95]}
    \cup {[text |-> "Rx", confidence |-> c] : c \in {25, 30, 35, 40, 45, 80}}
TesseractResponses ==
    {[kind |-> "raises"]}
    \cup {[kind |-> "data", boxes |-> bs] :
            bs \in SeqsUpTo(TesseractBoxes, MaxLines)}

\* _extract_with_tesseract(image)
extract_with_tesseract(tesseract_available, resp) ==
    IF ~tesseract_available THEN None
    ELSE IF resp.kind = "raises" THEN None
    ELSE
      LET kept == SelectSeq(resp.boxes,
                      LAMBDA b : /\ b.confidence > TesseractWordMin
                                 /\ Strip(b.text) # "")
          words == [i \in 1..Len(kept) |->
                       [text |-> Strip(kept[i].text),
                        confidence |-> kept[i].confidence]]
      IN  IF Strip(ConcatText(words)) = "" \/ Len(words) = 0 THEN None
          ELSE [text       |-> Strip(ConcatText(words)),
                confidence |-> Conf(SumConf(words), Len(words)),
                method     |-> "Tesseract"]

\* the candidate pooled last, whatever its confidence
LastResult(pool) == pool[Len(pool)]

\* max(ocr_results, key=lambda x: x['confidence']): the first maximal element
BestResult(pool) ==
    pool[CHOOSE i \in 1..Len(pool) :
            /\ \A j \in 1..Len(pool) :
                  ~ConfLess(pool[i].confidence, pool[j].confidence)
            /\ \A j \in 1..(i - 1) :
                  ConfLess(pool[j].confidence, pool[i].confidence)]

\* The inputs of a call: the Python type of image_file, whether it opens
\* (Image.open of the bytes or the path succeeds; image.save of a PIL image
\* as JPEG succeeds), and the format PIL reports (None for an image built
\* in memory).
ImageInputs ==
    [type : {"bytes", "str", "Image", "other"},
     opens : BOOLEAN,
     format : {"JPEG", "PNG", "GIF", "none"}]

Returned(result) == [kind |-> "return", result |-> result]
\* every exception raised inside the try block leaves as a RuntimeError
Raised(cause) == [kind |-> "raise", error |-> "RuntimeError", cause |-> cause]
NoReturn == [kind |-> "running"]

\* extract_text_from_image: input handling, format validation, preprocessing
OpenImage ==
    /\ ocr_pc = "start"
    /\ \E img \in ImageInputs :
         /\ ocr_image' = img
         /\ IF img.type = "other"
            THEN /\ ocr_return' = Raised("ValueError: unsupported type")
                 /\ ocr_pc' = "done"
            ELSE IF ~img.opens
            THEN /\ ocr_return' = Raised("image cannot be read")
                 /\ ocr_pc' = "done"
            ELSE IF img.format \notin {"none", "JPEG", "PNG", "JPG"}
            THEN /\ ocr_return' = Raised("ValueError: unsupported format")
                 /\ ocr_pc' = "done"
            ELSE /\ ocr_return' = NoReturn
                 /\ ocr_pc' = "paddle"
    /\ UNCHANGED <<ocr_engines, ocr_invoked, ocr_produced, ocr_results,
                   ldVars, nlpVars, anVars, apiVars, nerVars, dsVars>>

\* 1. Try PaddleOCR first
TryPaddle ==
    /\ ocr_pc = "paddle"
    /\ ocr_invoked' = Append(ocr_invoked, "PaddleOCR")
    /\ \E resp \in PaddleResponses :
         LET paddle_result == extract_with_paddle_ocr(ocr_engines.paddle_ocr, resp)
         IN  /\ ocr_produced' = IF paddle_result # None
                                THEN Append(ocr_produced, paddle_result)
                                ELSE ocr_produced
             /\ IF paddle_result # None
                   /\ ConfAbove(paddle_result.confidence, PaddleThreshold)
                THEN /\ ocr_return' = Returned(paddle_result)
                     /\ ocr_pc' = "done"
                     /\ UNCHANGED ocr_results
                ELSE /\ ocr_results' = IF paddle_result # None
                                       THEN Append(ocr_results, paddle_result)
                                       ELSE ocr_results
                     /\ ocr_pc' = "watson"
                     /\ UNCHANGED ocr_return
    /\ UNCHANGED <<ocr_engines, ocr_image, ldVars, nlpVars, anVars, apiVars, nerVars, dsVars>>

\* 2. Try IBM Watson OCR
TryWatson ==
    /\ ocr_pc = "watson"
    /\ ocr_invoked' = Append(ocr_invoked, "IBM Watson")
    /\ \E resp \in WatsonResponses :
         LET watson_result == extract_with_watson(ocr_engines.watson_ocr, resp)
         IN  /\ ocr_produced' = IF watson_result # None
                                THEN Append(ocr_produced, watson_result)
                                ELSE ocr_produced
             /\ IF watson_result # None
                THEN /\ ocr_return' = Returned(watson_result)
                     /\ ocr_pc' = "done"
                ELSE /\ ocr_pc' = "tesseract"
                     /\ UNCHANGED ocr_return
    /\ UNCHANGED <<ocr_engines, ocr_image, ocr_results, ldVars, nlpVars, anVars, apiVars, nerVars, dsVars>>

\* 3. Try Tesseract as final fallback
TryTesseract ==
    /\ ocr_pc = "tesseract"
    /\ ocr_invoked' = Append(ocr_invoked, "Tesseract")
    /\ \E resp \in TesseractResponses :
         LET tesseract_result ==
                 extract_with_tesseract(ocr_engines.tesseract_available, resp)
         IN  /\ ocr_produced' = IF tesseract_result # None
                                THEN Append(ocr_produced, tesseract_result)
                                ELSE ocr_produced
             /\ IF tesseract_result # None
                   /\ ConfAbove(tesseract_result.confidence, TesseractThreshold)
                THEN /\ ocr_return' = Returned(tesseract_result)
                     /\ ocr_pc' = "done"
                     /\ UNCHANGED ocr_results
                ELSE /\ ocr_results' = IF tesseract_result # None
                                       THEN Append(ocr_results, tesseract_result)
                                       ELSE ocr_results
                     /\ ocr_pc' = "best"
                     /\ UNCHANGED ocr_return
    /\ UNCHANGED <<ocr_engines, ocr_image, ldVars, nlpVars, anVars, apiVars, nerVars, dsVars>>

\* a cascade that fails as soon as one engine is missing from the pool
CascadeEndAllOrNothing(pool) ==
    IF Len(pool) > 1 THEN Returned(BestResult(pool))
    ELSE Raised("all OCR methods failed")

\* what the call ends with once no engine has returned early
CascadeEnd(pool) ==
    IF Len(pool) > 0 THEN Returned(BestResult(pool))
    ELSE Raised("all OCR methods failed")

\* "If we have any results, return the best one", else raise
ReturnBest ==
    /\ ocr_pc = "best"
    /\ ocr_return' = CascadeEnd(ocr_results)
    /\ ocr_pc' = "done"
    /\ UNCHANGED <<ocr_engines, ocr_image, ocr_invoked, ocr_produced,
                   ocr_results, ldVars, nlpVars, anVars, apiVars, nerVars, dsVars>>

(***************************************************************************)
(* Regular expressions, as re.finditer(pattern, text, re.IGNORECASE) runs  *)
(* them: a backtracking matcher that yields, for a pattern and a start     *)
(* position, the end positions in the order the engine tries them; the     *)
(* first one is the match.  Positions are 1-based indices of the next      *)
(* character to read.                                                      *)
(***************************************************************************)
Lit(str)     == [t |-> "lit", s |-> str]        \* literal text (lower case)
Digit        == [t |-> "cls", c |-> "digit"]    \* \d
Space        == [t |-> "cls", c |-> "space"]    \* \s
Letter       == [t |-> "cls", c |-> "letter"]   \* [A-Z], [a-z], [A-Za-z]
AlphaNum     == [t |-> "cls", c |-> "alnum"]    \* [A-Z0-9]
WordBoundary == [t |-> "b"]                     \* \b
Cat(nodes)   == [t |-> "seq", xs |-> nodes]
Alt(nodes)   == [t |-> "alt", xs |-> nodes]
Opt(node)    == [t |-> "opt", x |-> node]       \* x?
Star(node)   == [t |-> "star", x |-> node]      \* x*
Plus(node)   == [t |-> "plus", x |-> node]      \* x+
Empty        == Cat(<<>>)

Digits == "0123456789"
IsDigitCh(c)  == \E k \in 1..Len(Digits) : CharAt(Digits, k) = c
IsLetterCh(c) == c \in DOMAIN LowerMap \/ c \in DOMAIN UpperMap
\* \w
IsWordCh(c)   == IsLetterCh(c) \/ IsDigitCh(c) \/ c = "_"

InClass(c, class) ==
    CASE class = "digit"  -> IsDigitCh(c)
      [] class = "space"  -> IsSpace(c)
      [] class = "letter" -> IsLetterCh(c)
      [] class = "alnum"  -> IsLetterCh(c) \/ IsDigitCh(c)

RECURSIVE MatchEnds(_, _, _), MatchAll(_, _, _), MatchCat(_, _, _),
          MatchAlt(_, _, _), MatchStar(_, _, _), MatchStarAll(_, _, _)

\* the end positions of node matched at position i of s, in priority order
MatchEnds(node, s, i) ==
    CASE node.t = "lit" ->
            IF /\ i + Len(node.s) - 1 <= Len(s)
               /\ Lower(SubSeq(s, i, i + Len(node.s) - 1)) = node.s
            THEN <<i + Len(node.s)>> ELSE <<>>
      [] node.t = "cls" ->
            IF i <= Len(s) /\ InClass(CharAt(s, i), node.c)
            THEN <<i + 1>> ELSE <<>>
      [] node.t = "b" ->
            LET before == i > 1 /\ IsWordCh(CharAt(s, i - 1))
                after  == i <= Len(s) /\ IsWordCh(CharAt(s, i))
            IN  IF before # after THEN <<i>> ELSE <<>>
      [] node.t = "seq"  -> MatchCat(node.xs, s, <<i>>)
      [] node.t = "alt"  -> MatchAlt(node.xs, s, i)
      [] node.t = "opt"  -> MatchEnds(node.x, s, i) \o <<i>>
      [] node.t = "star" -> MatchStar(node.x, s, i)
      [] node.t = "plus" -> MatchStarAll(node.x, s, MatchEnds(node.x, s, i))

\* node matched at each of the positions starts, in order
MatchAll(node, s, starts) ==
    IF Len(starts) = 0 THEN <<>>
    ELSE MatchEnds(node, s, Head(starts)) \o MatchAll(node, s, Tail(starts))

MatchCat(nodes, s, starts) ==
    IF Len(nodes) = 0 THEN starts
    ELSE MatchCat(Tail(nodes), s, MatchAll(Head(nodes), s, starts))

MatchAlt(nodes, s, i) ==
    IF Len(nodes) = 0 THEN <<>>
    ELSE MatchEnds(Head(nodes), s, i) \o MatchAlt(Tail(nodes), s, i)

\* greedy repetition: more repetitions are tried before fewer
MatchStar(node, s, i) ==
    MatchStarAll(node, s, SelectSeq(MatchEnds(node, s, i), LAMBDA e : e > i))
    \o <<i>>

MatchStarAll(node, s, starts) ==
    IF Len(starts) = 0 THEN <<>>
    ELSE MatchStar(node, s, Head(starts)) \o MatchStarAll(node, s, Tail(starts))

\* A pattern is prefix (group) suffix; a match is <<group start, group end,
\* match end>>, or <<>> when the pattern does not match at position i.
Pattern(pre, grp, suf) == [pre |-> pre, grp |-> grp, suf |-> suf]

RECURSIVE FirstSuffix(_, _, _, _), FirstGroup(_, _, _)
FirstSuffix(p, s, a, groupEnds) ==
    IF Len(groupEnds) = 0 THEN <<>>
    ELSE LET ends == MatchEnds(p.suf, s, Head(groupEnds))
         IN  IF Len(ends) > 0 THEN <<a, Head(groupEnds), Head(ends)>>
             ELSE FirstSuffix(p, s, a, Tail(groupEnds))

FirstGroup(p, s, groupStarts) ==
    IF Len(groupStarts) = 0 THEN <<>>
    ELSE LET m == FirstSuffix(p, s, Head(groupStarts),
                              MatchEnds(p.grp, s, Head(groupStarts)))
         IN  IF Len(m) > 0 THEN m ELSE FirstGroup(p, s, Tail(groupStarts))

MatchAt(p, s, i) == FirstGroup(p, s, MatchEnds(p.pre, s, i))

RECURSIVE FindIter(_, _, _)
\* re.finditer(p, s): the matches from position i on, as records with the
\* match span (group 0) and the span of group 1, 1-based and half-open
FindIter(p, s, i) ==
    IF i > Len(s) + 1 THEN <<>>
    ELSE LET m == MatchAt(p, s, i)
         IN  IF Len(m) = 0 THEN FindIter(p, s, i + 1)
             ELSE << [start |-> i, end |-> m[3], gstart |-> m[1], gend |-> m[2]] >>
                  \o FindIter(p, s, IF m[3] > i THEN m[3] ELSE i + 1)

\* match.group(0) and match.group(1)
Group0(s, m) == SubSeq(s, m.start, m.end - 1)
Group1(s, m) == SubSeq(s, m.gstart, m.gend - 1)

(***************************************************************************)
(* MedicalNLPExtractor: the patterns of _init_medical_patterns             *)
(***************************************************************************)
S1(a)             == Cat(<<a>>)
S2(a, b)          == Cat(<<a, b>>)
S3(a, b, c)       == Cat(<<a, b, c>>)
GroupOnly(grp)    == Pattern(Empty, grp, Empty)

Number       == S2(Plus(Digit), Opt(S2(Lit("."), Plus(Digit))))
UnitsLong    == Alt(<<Lit("mg"), Lit("mcg"), Lit("g"), Lit("ml"), Lit("μg"),
                      S2(Lit("unit"), Opt(Lit("s")))>>)
UnitsDrug    == Alt(<<Lit("mg"), Lit("mcg"), Lit("g"), Lit("ml"), Lit("μg")>>)
UnitsRatio   == Alt(<<Lit("mg"), Lit("mcg"), Lit("g"), Lit("ml")>>)
PerDay       == S2(Opt(S2(Lit("per"), Plus(Space))),
                   Alt(<<Lit("day"), Lit("daily")>>))
DoseNoun     == S2(Alt(<<Lit("time"), Lit("tablet"), Lit("capsule"),
                         Lit("dose")>>), Opt(Lit("s")))
Bounded(grp) == Pattern(WordBoundary, grp, WordBoundary)

\* self.patterns['drug_names']; match.group(1) is taken
DrugNamePatterns ==
    << Pattern(WordBoundary,
               S3(Letter, Plus(Letter),
                  Alt(<<Lit("cillin"), Lit("mycin"), Lit("prazole"), Lit("olol"),
                        Lit("pine"), Lit("ide"), Lit("ine"), Lit("ate"),
                        Lit("ium")>>)),
               WordBoundary),
       Pattern(WordBoundary,
               S2(Letter, Plus(Letter)),
               Cat(<<Plus(Space), Plus(Digit), Star(Space), UnitsDrug>>)),
       Pattern(S2(Alt(<<Lit("rx:"), Lit("take:"), Lit("medication:")>>),
                  Star(Space)),
               S2(Plus(Letter), Star(S2(Plus(Space), Plus(Letter)))),
               Empty) >>

\* self.patterns['dosages']; match.group(0) is taken
DosagePatterns ==
    << GroupOnly(S3(Number, Star(Space), UnitsLong)),
       GroupOnly(S3(Number, Star(Space), UnitsLong)),
       GroupOnly(Cat(<<Plus(Digit), Lit("/"), Plus(Digit), Star(Space),
                       UnitsRatio>>)) >>

\* self.patterns['frequencies']; match.group(1) is taken
FrequencyPatterns ==
    << Pattern(S2(Alt(<<Lit("take"), Lit("use")>>), Plus(Space)),
               Plus(Digit),
               Cat(<<Plus(Space), DoseNoun, Plus(Space), PerDay>>)),
       Pattern(Empty,
               Plus(Digit),
               Cat(<<Plus(Space), DoseNoun, Plus(Space), PerDay>>)),
       Pattern(Empty,
               Alt(<<Lit("once"), Lit("twice"), Lit("three times"),
                     Lit("four times")>>),
               S2(Plus(Space), PerDay)),
       Pattern(S2(Lit("every"), Plus(Space)),
               Plus(Digit),
               S3(Plus(Space), Lit("hour"), Opt(Lit("s")))),
       GroupOnly(Alt(<<Lit("morning"), Lit("evening"), Lit("night"),
                       Lit("bedtime")>>)),
       Pattern(Empty,
               Alt(<<Lit("before"), Lit("after")>>),
               S2(Plus(Space),
                  Alt(<<S2(Lit("meal"), Opt(Lit("s"))), Lit("food"),
                        Lit("eating")>>))) >>

\* self.patterns['routes']; match.group(0) is taken
RoutePatterns ==
    << Bounded(Alt(<<Lit("oral"), Lit("orally"), Lit("by mouth"), Lit("po")>>)),
       Bounded(Alt(<<Lit("topical"), Lit("topically"), Lit("apply")>>)),
       Bounded(Alt(<<Lit("injection"), Lit("inject"), Lit("iv"), Lit("im"),
                     Lit("sc")>>)),
       Bounded(Alt(<<Lit("inhale"), Lit("inhalation"), Lit("nebulizer")>>)) >>

\* self.patterns['duration']; match.group(0) is taken
DurationPatterns ==
    << GroupOnly(Cat(<<Lit("for"), Plus(Space), Plus(Digit), Plus(Space),
                       Alt(<<Lit("day"), Lit("week"), Lit("month")>>),
                       Opt(Lit("s"))>>)),
       GroupOnly(Cat(<<Plus(Digit), Plus(Space),
                       Alt(<<Lit("day"), Lit("week"), Lit("month")>>),
                       Plus(Space),
                       Alt(<<Lit("course"), Lit("treatment")>>)>>)),
       GroupOnly(Cat(<<Lit("until"), Plus(Space),
                       Alt(<<Lit("finished"), Lit("gone"), Lit("empty")>>)>>)) >>

RECURSIVE Spans(_, _, _)
\* The loop "for pattern in patterns: for match in re.finditer(...)": every
\* match in append order, as the text taken from it (group 1 when whichGroup
\* is 1, else group 0) and the 0-based offset of that text in the raw text.
Spans(patterns, whichGroup, text) ==
    IF Len(patterns) = 0 THEN <<>>
    ELSE LET ms == FindIter(Head(patterns), text, 1)
         IN  [k \in 1..Len(ms) |->
                 IF whichGroup = 1
                 THEN [text |-> Group1(text, ms[k]), offset |-> ms[k].gstart - 1]
                 ELSE [text |-> Group0(text, ms[k]), offset |-> ms[k].start - 1]]
             \o Spans(Tail(patterns), whichGroup, text)

Texts(spans) == [k \in 1..Len(spans) |-> spans[k].text]

\* the lists of the dict results of _extract_with_patterns, with the
\* patterns that fill each and the group taken from a match
PatternLists == {"drugs", "dosages", "frequencies", "routes", "durations"}

PatternsOf(list) ==
    CASE list = "drugs"       -> DrugNamePatterns
      [] list = "dosages"     -> DosagePatterns
      [] list = "frequencies" -> FrequencyPatterns
      [] list = "routes"      -> RoutePatterns
      [] list = "durations"   -> DurationPatterns

GroupTaken(list) == IF list \in {"drugs", "frequencies"} THEN 1 ELSE 0

\* the spans _extract_with_patterns takes from the text, per list
PatternSpans(text) ==
    [list \in PatternLists |-> Spans(PatternsOf(list), GroupTaken(list), text)]

\* The longest prescription text, in words, and the longest one for which
\* the model-backed extractors are loaded as well.
MaxWords == 4
MaxWordsWithModels == 2

Vocabulary == {"PO", "5mg", "2mg"}

\* the prescription texts: words separated by single spaces
PrescriptionTexts(n) == {Join(" ", ws) : ws \in SeqsUpTo(Vocabulary, n)}

PatternConfidence == 60

\* the dict results, from the spans
PatternResults(spans) == [list \in PatternLists |-> Texts(spans[list])]

\* _extract_with_patterns(text)
extract_with_patterns(text) ==
    [method     |-> "Pattern Matching",
     results    |-> PatternResults(PatternSpans(text)),
     confidence |-> PatternConfidence]

(***************************************************************************)
(* MedicalNLPExtractor: the model-backed extractors.  The models are       *)
(* oracles: what one answers is chosen from a set of responses.            *)
(***************************************************************************)
\* {} : the empty dict an extractor returns when it is unavailable or fails
EmptyDict == <<>>

BioBERTConfidence    == 70
PubMedBERTConfidence == 80
WatsonNLUConfidence  == 75
DrugNERConfidence    == 85
PubMedBERTMinScore   == 50
WatsonNLUMinScore    == 50
DrugNERMinScore      == 60

RECURSIVE ReplaceAll(_, _, _)
\* str.replace(old, new), old not empty
ReplaceAll(s, old, new) ==
    IF Len(s) < Len(old) THEN s
    ELSE IF SubSeq(s, 1, Len(old)) = old
    THEN new \o ReplaceAll(SubSeq(s, Len(old) + 1, Len(s)), old, new)
    ELSE CharAt(s, 1) \o ReplaceAll(SubSeq(s, 2, Len(s)), old, new)

StartsWith(s, prefix) ==
    Len(s) >= Len(prefix) /\ SubSeq(s, 1, Len(prefix)) = prefix

BioBERTResponses ==
    { [kind |-> "raises"],
      [kind |-> "tokens",
       tokens |-> <<"[CLS]", "Axolol", "##olol", "5mg", "[SEP]">>] }

\* _extract_with_biobert(text)
extract_with_biobert(available, resp) ==
    IF ~available THEN EmptyDict
    ELSE IF resp.kind = "raises" THEN EmptyDict
    ELSE [method          |-> "BioBERT",
          drug_candidates |->
              SelectSeq(resp.tokens,
                  LAMBDA token :
                      /\ ~StartsWith(token, "##")
                      /\ \E suffix \in {"cillin", "mycin", "prazole", "olol"} :
                            Contains(Lower(token), suffix)),
          confidence      |-> BioBERTConfidence]

Entity(word, score, group) ==
    [word |-> word, score |-> score, entity_group |-> group]

PubMedBERTResponses ==
    { [kind |-> "raises"],
      [kind |-> "entities",
       entities |-> << Entity("Drug", 90, "MISC"), Entity("the drug", 40, "MISC"),
                       Entity("ax##olol", 95, "CHEM"),
                       Entity("Drug PO", 80, "MISC") >>] }

IsDrugWord(entity_text) ==
    \E keyword \in {"drug", "medication", "medicine"} :
        Contains(Lower(entity_text), keyword)

\* _extract_with_pubmedbert(text)
extract_with_pubmedbert(available, resp) ==
    IF ~available THEN EmptyDict
    ELSE IF resp.kind = "raises" THEN EmptyDict
    ELSE
      LET kept == SelectSeq(resp.entities,
                            LAMBDA e : e.score > PubMedBERTMinScore)
          item(e) == [text       |-> ReplaceAll(e.word, "##", ""),
                      confidence |-> e.score,
                      label      |-> e.entity_group]
          items == [k \in 1..Len(kept) |-> item(kept[k])]
      IN  [method        |-> "PubMedBERT",
           drugs         |-> SelectSeq(items, LAMBDA d : IsDrugWord(d.text)),
           medical_terms |-> SelectSeq(items, LAMBDA d : ~IsDrugWord(d.text)),
           confidence    |-> PubMedBERTConfidence]

WatsonNLUResponses ==
    { [kind |-> "raises"],
      [kind |-> "response",
       entities |-> << [text |-> "Zzz", type |-> "Drug", confidence |-> 90],
                       [text |-> "PO", type |-> "Drug", confidence |-> 30] >>,
       keywords |-> << [text |-> "oral", relevance |-> 70] >>] }

\* _extract_with_watson_nlu(text)
extract_with_watson_nlu(available, resp) ==
    IF ~available THEN EmptyDict
    ELSE IF resp.kind = "raises" THEN EmptyDict
    ELSE [method     |-> "Watson NLU",
          entities   |-> SelectSeq(resp.entities,
                             LAMBDA e : e.confidence > WatsonNLUMinScore),
          keywords   |-> SelectSeq(resp.keywords,
                             LAMBDA k : k.relevance > WatsonNLUMinScore),
          confidence |-> WatsonNLUConfidence]

NerEntity(word, score, group, start, end) ==
    [word |-> word, score |-> score, entity_group |-> group,
     start |-> start, end |-> end]

DrugNERResponses ==
    { [kind |-> "raises"],
      [kind |-> "entities",
       entities |-> << NerEntity("Axolol ", 90, "Drug", 0, 7),
                       NerEntity("axolol", 99, "DRUG", 0, 6),
                       NerEntity("5mg", 99, "Dosage", 7, 10) >>],
      [kind |-> "entities",
       entities |-> << NerEntity("drug", 70, "drug", 0, 4),
                       NerEntity("po ", 80, "DRUG", 0, 3),
                       NerEntity("PO", 80, "DRUG", 0, 2),
                       NerEntity("Drug", 60, "DRUG", 0, 4) >>] }

\* _extract_with_drug_ner(text)
extract_with_drug_ner(available, resp) ==
    IF ~available THEN EmptyDict
    ELSE IF resp.kind = "raises" THEN EmptyDict
    ELSE
      LET kept == SelectSeq(resp.entities,
                      LAMBDA e : /\ e.score > DrugNERMinScore
                                 /\ Contains(Upper(e.entity_group), "DRUG"))
      IN  [method     |-> "Drug NER",
           drugs      |-> [k \in 1..Len(kept) |->
                              [name       |-> kept[k].word,
                               confidence |-> kept[k].score,
                               start      |-> kept[k].start,
                               end        |-> kept[k].end]],
           confidence |-> DrugNERConfidence]

(***************************************************************************)
(* MedicalNLPExtractor: fusion and attribute binding                       *)
(***************************************************************************)
IsEmptyDict(d) == DOMAIN d = {}
HasKey(d, k)   == k \in DOMAIN d

\* drug.get('name', drug.get('text', ''))
DrugItemName(drug) ==
    IF HasKey(drug, "name") THEN drug.name
    ELSE IF HasKey(drug, "text") THEN drug.text
    ELSE ""

\* "if name and len(name) > 2"
MinNameLength == 2
PassesLengthFilter(name) == name # "" /\ Len(name) > MinNameLength

\* The names one result contributes to all_drugs, in loop order: the branch
\* taken depends on which key the result dict holds.
MentionsOf(result) ==
    IF HasKey(result, "drugs")
    THEN SelectSeq([k \in 1..Len(result.drugs) |-> DrugItemName(result.drugs[k])],
                   PassesLengthFilter)
    ELSE IF HasKey(result, "drug_candidates") THEN result.drug_candidates
    ELSE IF HasKey(result, "results") THEN result.results.drugs
    ELSE <<>>

\* a key that keeps the surrounding whitespace
NameKeyUntrimmed(name) == Lower(name)

\* name.lower().strip()
NameKey(name) == Strip(Lower(name))

\* an update in which a later mention also wins on equal confidence
UpsertLastWins(all_drugs, name, confidence, method) ==
    LET name_key == Strip(Lower(name))
        entry == [key |-> name_key, name |-> name,
                  confidence |-> confidence, method |-> method]
        at == {k \in 1..Len(all_drugs) : all_drugs[k].key = name_key}
    IN  IF at = {} THEN Append(all_drugs, entry)
        ELSE LET k == CHOOSE k \in at : TRUE
             IN  IF all_drugs[k].confidence <= confidence
                 THEN [all_drugs EXCEPT ![k] = entry]
                 ELSE all_drugs

\* "if name_key not in all_drugs or all_drugs[name_key]['confidence'] <
\* confidence: all_drugs[name_key] = {...}".  all_drugs is a dict: a replaced
\* entry keeps its place in the iteration order.
Upsert(all_drugs, name, confidence, method) ==
    LET name_key == NameKey(name)
        entry == [key |-> name_key, name |-> name,
                  confidence |-> confidence, method |-> method]
        at == {k \in 1..Len(all_drugs) : all_drugs[k].key = name_key}
    IN  IF at = {} THEN Append(all_drugs, entry)
        ELSE LET k == CHOOSE k \in at : TRUE
             IN  IF all_drugs[k].confidence < confidence
                 THEN [all_drugs EXCEPT ![k] = entry]
                 ELSE all_drugs

RECURSIVE UpsertAll(_, _, _, _)
UpsertAll(all_drugs, names, confidence, method) ==
    IF Len(names) = 0 THEN all_drugs
    ELSE UpsertAll(Upsert(all_drugs, Head(names), confidence, method),
                   Tail(names), confidence, method)

RECURSIVE CollectMentions(_, _)
\* the loop "for result in results" that fills all_drugs
CollectMentions(all_drugs, results) ==
    IF Len(results) = 0 THEN all_drugs
    ELSE LET result == Head(results)
             method == IF HasKey(result, "method") THEN result.method ELSE "Unknown"
             confidence == IF HasKey(result, "confidence") THEN result.confidence ELSE 0
         IN  CollectMentions(
                 UpsertAll(all_drugs, MentionsOf(result), confidence, method),
                 Tail(results))

RECURSIVE ClosestFrom(_, _, _, _, _, _)
\* the loop "for candidate in candidates" of _find_closest_match, from
\* candidate k on; min_distance -1 stands for float('inf')
ClosestFrom(candidates, k, text, drug_pos, closest_candidate, min_distance) ==
    IF k > Len(candidates) THEN closest_candidate
    ELSE
      LET candidate_pos == Find(Lower(text), Lower(candidates[k]))
          distance == IF candidate_pos - drug_pos < 0
                      THEN drug_pos - candidate_pos
                      ELSE candidate_pos - drug_pos
      IN  IF candidate_pos # -1 /\ (min_distance = -1 \/ distance < min_distance)
          THEN ClosestFrom(candidates, k + 1, text, drug_pos,
                           candidates[k], distance)
          ELSE ClosestFrom(candidates, k + 1, text, drug_pos,
                           closest_candidate, min_distance)

\* a binder that falls back to the last candidate
find_last_match(drug_name, candidates, text) ==
    IF Len(candidates) = 0 THEN ""
    ELSE LET drug_pos == Find(Lower(text), Lower(drug_name))
         IN  IF drug_pos = -1 THEN candidates[Len(candidates)]
             ELSE ClosestFrom(candidates, 1, text, drug_pos, "", -1)

\* _find_closest_match(drug_name, candidates, text)
find_closest_match(drug_name, candidates, text) ==
    IF Len(candidates) = 0 THEN ""
    ELSE LET drug_pos == Find(Lower(text), Lower(drug_name))
         IN  IF drug_pos = -1 THEN candidates[1]
             ELSE ClosestFrom(candidates, 1, text, drug_pos, "", -1)

\* pattern_result.get('results', {}) of the first result whose method is
\* 'Pattern Matching', and pattern_data.get(kind, [])
PatternData(results) ==
    LET at == {k \in 1..Len(results) :
                 HasKey(results[k], "method") /\ results[k].method = "Pattern Matching"}
    IN  IF at = {} THEN EmptyDict
        ELSE LET r == results[CHOOSE k \in at : \A j \in at : k <= j]
             IN  IF HasKey(r, "results") THEN r.results ELSE EmptyDict

CandidatesOf(pattern_data, kind) ==
    IF HasKey(pattern_data, kind) THEN pattern_data[kind] ELSE <<>>

\* the DrugEntity field each list of pattern_data fills
AttributeList(field) ==
    CASE field = "dosage"    -> "dosages"
      [] field = "frequency" -> "frequencies"
      [] field = "route"     -> "routes"
      [] field = "duration"  -> "durations"

AttributeFields == {"dosage", "frequency", "route", "duration"}

\* DrugEntity(name=..., dosage=..., frequency=..., route=..., duration=...,
\* confidence=...); instructions keeps its default
DrugEntity(drug_data, pattern_data, text) ==
    [field \in AttributeFields \cup {"name", "instructions", "confidence"} |->
        CASE field = "name"         -> drug_data.name
          [] field = "instructions" -> ""
          [] field = "confidence"   -> drug_data.confidence
          [] OTHER ->
                find_closest_match(drug_data.name,
                    CandidatesOf(pattern_data, AttributeList(field)), text)]

\* _combine_drug_extractions(results, text)
combine_drug_extractions(results, text) ==
    LET all_drugs == CollectMentions(<<>>, results)
        pattern_data == PatternData(results)
    IN  [k \in 1..Len(all_drugs) |-> DrugEntity(all_drugs[k], pattern_data, text)]

\* extract_medical_entities: "if x_result: extraction_results.append(x_result)"
AppendIfAny(results, result) ==
    IF IsEmptyDict(result) THEN results ELSE Append(results, result)

RunBioBERT ==
    /\ nlp_pc = "biobert"
    /\ \E resp \in BioBERTResponses :
         extraction_results' =
             AppendIfAny(extraction_results,
                         extract_with_biobert(nlp_models.biobert, resp))
    /\ nlp_pc' = "pubmedbert"
    /\ UNCHANGED <<nlp_models, nlp_text, combined_drugs, ldVars, ocrVars, anVars, apiVars, nerVars, dsVars>>

RunPubMedBERT ==
    /\ nlp_pc = "pubmedbert"
    /\ \E resp \in PubMedBERTResponses :
         extraction_results' =
             AppendIfAny(extraction_results,
                         extract_with_pubmedbert(nlp_models.pubmedbert, resp))
    /\ nlp_pc' = "watson"
    /\ UNCHANGED <<nlp_models, nlp_text, combined_drugs, ldVars, ocrVars, anVars, apiVars, nerVars, dsVars>>

RunWatsonNLU ==
    /\ nlp_pc = "watson"
    /\ \E resp \in WatsonNLUResponses :
         extraction_results' =
             AppendIfAny(extraction_results,
                         extract_with_watson_nlu(nlp_models.watson_nlu, resp))
    /\ nlp_pc' = "drug_ner"
    /\ UNCHANGED <<nlp_models, nlp_text, combined_drugs, ldVars, ocrVars, anVars, apiVars, nerVars, dsVars>>

RunDrugNER ==
    /\ nlp_pc = "drug_ner"
    /\ \E resp \in DrugNERResponses :
         extraction_results' =
             AppendIfAny(extraction_results,
                         extract_with_drug_ner(nlp_models.drug_ner, resp))
    /\ nlp_pc' = "patterns"
    /\ UNCHANGED <<nlp_models, nlp_text, combined_drugs, ldVars, ocrVars, anVars, apiVars, nerVars, dsVars>>

\* pattern_result is appended unconditionally
RunPatterns ==
    /\ nlp_pc = "patterns"
    /\ extraction_results' =
           Append(extraction_results, extract_with_patterns(nlp_text))
    /\ nlp_pc' = "combine"
    /\ UNCHANGED <<nlp_models, nlp_text, combined_drugs, ldVars, ocrVars, anVars, apiVars, nerVars, dsVars>>

CombineResults ==
    /\ nlp_pc = "combine"
    /\ combined_drugs' = combine_drug_extractions(extraction_results, nlp_text)
    /\ nlp_pc' = "done"
    /\ UNCHANGED <<nlp_models, nlp_text, extraction_results, ldVars, ocrVars, anVars, apiVars, nerVars, dsVars>>

(***************************************************************************)
(* main.py: age-based dosage advice, alternatives, overall risk            *)
(***************************************************************************)
\* The most drugs handed to _get_age_based_dosage_advice, the most
\* interaction results handed to _suggest_alternatives, and the most
\* interaction results and advice entries handed to _calculate_overall_risk.
MaxAdviceDrugs  == 2
MaxInteractions == 5
MaxRiskSignals  == 2

Ages == {17, 18, 65, 66}

\* DrugInfo(name, dosage, frequency); drugbank_id and interaction are not
\* read by the helpers
DrugInfo(name, dosage, frequency) ==
    [name |-> name, dosage |-> dosage, frequency |-> frequency]

DrugInfos ==
    {DrugInfo(n, d, f) : n \in {"aspirin", "warfarin"},
                         d \in {"250mg", "500mg", "1000mg", "1500mg"},
                         f \in {"2/day", "3/day"}}

DosageAdvice(drug, current_dosage, recommended_dosage, advice, risk_level) ==
    [drug |-> drug, current_dosage |-> current_dosage,
     recommended_dosage |-> recommended_dosage, advice |-> advice,
     risk_level |-> risk_level]

\* a rule whose elderly band starts at 65
AdviceForElderlyFrom65(drug, age) ==
    IF age >= 65 /\ Contains(drug.dosage, "1000mg")
    THEN DosageAdvice(drug.name, drug.dosage,
             ReplaceAll(drug.dosage, "1000mg", "750mg"),
             "Reduced dosage recommended for elderly patients", "Medium")
    ELSE DosageAdvice(drug.name, drug.dosage, drug.dosage,
             "Standard adult dosage appropriate", "Low")

\* the body of the loop of _get_age_based_dosage_advice, for one drug
AdviceFor(drug, age) ==
    LET current_dosage == drug.dosage
    IN  IF age < 18
        THEN IF Contains(current_dosage, "500mg")
             THEN DosageAdvice(drug.name, current_dosage,
                      ReplaceAll(current_dosage, "500mg", "250mg"),
                      "Reduced dosage recommended for pediatric patients",
                      "Medium")
             ELSE IF Contains(current_dosage, "1000mg")
             THEN DosageAdvice(drug.name, current_dosage,
                      ReplaceAll(current_dosage, "1000mg", "500mg"),
                      "Significantly reduced dosage for pediatric use", "High")
             ELSE DosageAdvice(drug.name, current_dosage, current_dosage,
                      "Verify pediatric dosing guidelines", "Medium")
        ELSE IF age > 65
        THEN IF Contains(current_dosage, "1000mg")
             THEN DosageAdvice(drug.name, current_dosage,
                      ReplaceAll(current_dosage, "1000mg", "750mg"),
                      "Reduced dosage recommended for elderly patients",
                      "Medium")
             ELSE IF /\ Contains(current_dosage, "500mg")
                     /\ Contains(drug.frequency, "3/day")
             THEN DosageAdvice(drug.name, current_dosage, current_dosage,
                      "Consider reducing frequency for elderly patients",
                      "Medium")
             ELSE DosageAdvice(drug.name, current_dosage, current_dosage,
                      "Standard adult dosage appropriate", "Low")
        ELSE DosageAdvice(drug.name, current_dosage, current_dosage,
                 "Standard adult dosage appropriate", "Low")

\* _get_age_based_dosage_advice(drugs, age)
get_age_based_dosage_advice(drugs, age) ==
    [k \in 1..Len(drugs) |-> AdviceFor(drugs[k], age)]

\* One element of interaction_results, as get_interaction builds it.
InteractionResult(drug, interaction) ==
    [drug |-> drug, interaction |-> interaction]

InteractionResults ==
    { InteractionResult("Warfarin", "with aspirin: Severe: bleeding risk"),
      InteractionResult("aspirin", "with Warfarin: SEVERE: bleeding risk"),
      InteractionResult("aspirin", "with Warfarin: Major: avoid"),
      InteractionResult("warfarin", "with aspirin: Moderate: monitor INR"),
      InteractionResult("Xyz", "with aspirin: Severe: bleeding risk"),
      InteractionResult("Paracetamol", "None") }

\* alternative_map, as (drug, alternative) pairs
alternative_map ==
    << <<"paracetamol", "ibuprofen">>, <<"acetaminophen", "ibuprofen">>,
       <<"aspirin", "paracetamol">>, <<"ibuprofen", "naproxen">>,
       <<"warfarin", "rivaroxaban">>, <<"metformin", "glipizide">> >>

RECURSIVE TitleFrom(_, _)
\* str.title() of s from character i on: a letter is upper-cased when the
\* character before it is not a letter, lower-cased otherwise
TitleFrom(s, i) ==
    IF i > Len(s) THEN ""
    ELSE (IF i = 1 \/ ~IsLetterCh(CharAt(s, i - 1))
          THEN UpperCh(CharAt(s, i))
          ELSE LowerCh(CharAt(s, i)))
         \o TitleFrom(s, i + 1)

Title(s) == TitleFrom(s, 1)

Alternative(original_drug, alternative, reason) ==
    [original_drug |-> original_drug, alternative |-> alternative,
     reason |-> reason]

RECURSIVE AlternativesOfHighSeverity(_)
\* a loop that also takes the interactions called major
AlternativesOfHighSeverity(interaction_results) ==
    IF Len(interaction_results) = 0 THEN <<>>
    ELSE
      LET result == Head(interaction_results)
          drug_name == Lower(result.drug)
      IN  (IF /\ result.interaction # "None"
              /\ \/ Contains(Lower(result.interaction), "severe")
                 \/ Contains(Lower(result.interaction), "major")
              /\ MappingHas(alternative_map, drug_name)
           THEN << Alternative(result.drug,
                       Title(MappingGet(alternative_map, drug_name)),
                       "Safer alternative due to interaction risk: "
                           \o result.interaction) >>
           ELSE <<>>)
          \o AlternativesOfHighSeverity(Tail(interaction_results))

RECURSIVE AlternativesOf(_)
\* the loop of _suggest_alternatives over interaction_results
AlternativesOf(interaction_results) ==
    IF Len(interaction_results) = 0 THEN <<>>
    ELSE
      LET result == Head(interaction_results)
          drug_name == Lower(result.drug)
      IN  (IF /\ result.interaction # "None"
              /\ Contains(Lower(result.interaction), "severe")
              /\ MappingHas(alternative_map, drug_name)
           THEN << Alternative(result.drug,
                       Title(MappingGet(alternative_map, drug_name)),
                       "Safer alternative due to interaction risk: "
                           \o result.interaction) >>
           ELSE <<>>)
          \o AlternativesOf(Tail(interaction_results))

\* the whole list, without a cap
AllAlternatives(alternatives) == alternatives

\* alternatives[:2]
FirstTwo(alternatives) ==
    SubSeq(alternatives, 1, IF Len(alternatives) < 2 THEN Len(alternatives) ELSE 2)

\* _suggest_alternatives(drugs, interaction_results); drugs is not read
suggest_alternatives(interaction_results) ==
    FirstTwo(AlternativesOf(interaction_results))

\* _extract_severity(interaction_text)
extract_severity(interaction_text) ==
    LET interaction_lower == Lower(interaction_text)
    IN  IF \/ Contains(interaction_lower, "severe")
            \/ Contains(interaction_lower, "major")
        THEN "High"
        ELSE IF \/ Contains(interaction_lower, "moderate")
                \/ Contains(interaction_lower, "warning")
        THEN "Medium"
        ELSE "Low"

\* the severity counted for one interaction result
SeverityOf(result) ==
    IF result.interaction # "None" THEN extract_severity(result.interaction)
    ELSE "Low"

\* high_risk_count or medium_risk_count after both loops
RiskCount(interaction_results, dosage_advice, level) ==
    Cardinality({k \in 1..Len(interaction_results) :
                    SeverityOf(interaction_results[k]) = level})
    + Cardinality({k \in 1..Len(dosage_advice) :
                      dosage_advice[k].risk_level = level})

\* a risk decided by the majority of the signals
calculate_risk_by_majority(interaction_results, dosage_advice) ==
    IF RiskCount(interaction_results, dosage_advice, "High")
           > RiskCount(interaction_results, dosage_advice, "Medium")
    THEN "High"
    ELSE IF RiskCount(interaction_results, dosage_advice, "Medium") > 0
    THEN "Medium"
    ELSE "Low"

\* _calculate_overall_risk(interaction_results, dosage_advice)
calculate_overall_risk(interaction_results, dosage_advice) ==
    IF RiskCount(interaction_results, dosage_advice, "High") > 0 THEN "High"
    ELSE IF RiskCount(interaction_results, dosage_advice, "Medium") > 0
    THEN "Medium"
    ELSE "Low"

\* the advice entries handed to _calculate_overall_risk
AdviceEntries ==
    {DosageAdvice("aspirin", "500mg", "500mg", "", r) :
        r \in {"Low", "Medium", "High"}}

\* The calls made to the helpers.
AdviceCalls ==
    {[op |-> "get_age_based_dosage_advice", drugs |-> drugs, age |-> age] :
        drugs \in SeqsUpTo(DrugInfos, MaxAdviceDrugs), age \in Ages}

AlternativesCalls ==
    {[op |-> "suggest_alternatives", interaction_results |-> rs] :
        rs \in SeqsUpTo(InteractionResults, MaxInteractions)}

RiskCalls ==
    {[op |-> "calculate_overall_risk", interaction_results |-> rs,
      dosage_advice |-> advice] :
        rs \in SeqsUpTo(InteractionResults, MaxRiskSignals),
        advice \in SeqsUpTo(AdviceEntries, MaxRiskSignals)}

NoResult == [py |-> "pending"]

GetAgeBasedDosageAdvice ==
    /\ an_pc = "called"
    /\ an_call.op = "get_age_based_dosage_advice"
    /\ an_result' = get_age_based_dosage_advice(an_call.drugs, an_call.age)
    /\ an_pc' = "returned"
    /\ UNCHANGED <<an_call, ldVars, ocrVars, nlpVars, apiVars, nerVars, dsVars>>

SuggestAlternatives ==
    /\ an_pc = "called"
    /\ an_call.op = "suggest_alternatives"
    /\ an_result' = suggest_alternatives(an_call.interaction_results)
    /\ an_pc' = "returned"
    /\ UNCHANGED <<an_call, ldVars, ocrVars, nlpVars, apiVars, nerVars, dsVars>>

CalculateOverallRisk ==
    /\ an_pc = "called"
    /\ an_call.op = "calculate_overall_risk"
    /\ an_result' = calculate_overall_risk(an_call.interaction_results,
                                           an_call.dosage_advice)
    /\ an_pc' = "returned"
    /\ UNCHANGED <<an_call, ldVars, ocrVars, nlpVars, apiVars, nerVars, dsVars>>

(***************************************************************************)
(* main.py: the endpoints analyze_prescription and                         *)
(* analyze_prescription_image.  drug_extractor and ocr_reader are oracles: *)
(* what extract_drugs and extract_text_from_image answer is chosen from a  *)
(* set of outcomes.  dataset_loader is the DatasetLoader above, with its   *)
(* tables as loaded when the module was imported.                          *)
(***************************************************************************)
\* HTTPException(status_code, detail)
HTTPException(status_code, detail) ==
    [exc |-> "HTTPException", status_code |-> status_code, detail |-> detail]
\* any other exception
Exception(type) == [exc |-> type]
\* the endpoint returns a response model
Response(body) == [status_code |-> 200, body |-> body]

NoPending == [exc |-> "none"]
NoResponse == [status_code |-> 0]

\* what drug_extractor.extract_drugs answers: it raises, or it returns a
\* dict whose "drugs" list may be empty
ExtractedDrugs ==
    { <<>>,
      << DrugInfo("aspirin", "500mg", "3/day") >>,
      << DrugInfo("Warfarin", "1000mg", "2/day"),
         DrugInfo("aspirin", "1500mg", "3/day") >> }
ExtractionOutcomes ==
    {[kind |-> "raises"]}
    \cup {[kind |-> "result", drugs |-> ds] : ds \in ExtractedDrugs}

\* what ocr_reader.extract_text_from_image answers: it raises, or it
\* returns the text read from the image
OcrOutcomes ==
    {[kind |-> "raises"]}
    \cup {[kind |-> "text", text |-> t] :
            t \in {"", "         Rx ", "aspirin 500mg"}}

\* "not extracted_text or len(extracted_text.strip()) < 10"
MinReadableLength == 10
Unreadable(extracted_text) ==
    extracted_text = "" \/ Len(Strip(extracted_text)) < MinReadableLength

\* next((result for result in interaction_results
\*       if result["drug"].lower() == drug["name"].lower()), default)
InteractionInfo(interaction_results, drug) ==
    LET at == {i \in 1..Len(interaction_results) :
                  Lower(interaction_results[i].drug) = Lower(drug.name)}
    IN  IF at # {}
        THEN interaction_results[CHOOSE i \in at : \A j \in at : i <= j]
        ELSE [drugbank_id |-> None, interaction |-> "None"]

\* the loop that builds enhanced_drugs
EnhancedDrugs(extracted_drugs, interaction_results) ==
    [k \in 1..Len(extracted_drugs) |->
        LET drug == extracted_drugs[k]
            interaction_info == InteractionInfo(interaction_results, drug)
        IN  [name        |-> drug.name,
             dosage      |-> drug.dosage,
             frequency   |-> drug.frequency,
             drugbank_id |-> interaction_info.drugbank_id,
             interaction |-> interaction_info.interaction]]

RECURSIVE InteractionsSummary(_)
\* the loop that builds interactions_summary
InteractionsSummary(interaction_results) ==
    IF Len(interaction_results) = 0 THEN <<>>
    ELSE LET result == Head(interaction_results)
         IN  (IF result.interaction # "None"
              THEN << [drug        |-> result.drug,
                       drugbank_id |-> result.drugbank_id,
                       interaction |-> result.interaction,
                       severity    |-> extract_severity(result.interaction)] >>
              ELSE <<>>)
             \o InteractionsSummary(Tail(interaction_results))

\* AnalysisResponse / ImageAnalysisResponse, without the timestamp
AnalysisResponse(enhanced_drugs, interaction_results, dosage_advice) ==
    [drugs         |-> enhanced_drugs,
     interactions  |-> InteractionsSummary(interaction_results),
     dosage_advice |-> dosage_advice,
     alternatives  |-> suggest_alternatives(interaction_results),
     overall_risk  |-> calculate_overall_risk(interaction_results,
                                              dosage_advice)]

NoLocals == [temp_file |-> "None", temp_file_path |-> "unbound",
             extracted_text |-> "unbound", extracted_drugs |-> <<>>]

\* the requests: the endpoint, the age, and the content type of the upload
Requests ==
    {[endpoint |-> "analyze_prescription", age |-> age] : age \in Ages}
    \cup {[endpoint |-> "analyze_prescription_image", age |-> age,
           content_type |-> ct] :
            age \in Ages, ct \in {"None", "text/plain", "image/png"}}

\* an except clause that sees only the exceptions that are not
\* HTTPException
HandledBeforeCatchAll(pending, prefix) ==
    IF pending.exc = "none" THEN pending
    ELSE IF pending.exc = "HTTPException" THEN pending
    ELSE HTTPException(500, prefix)

\* "except Exception as e: raise HTTPException(status_code=500, ...)";
\* HTTPException is an Exception, so the clause takes it as well
HandledByCatchAll(pending, prefix) ==
    IF pending.exc = "none" THEN pending
    ELSE HTTPException(500, prefix)

\* analyze_prescription(request), "Step 1: Extract drug entities using NLP".
\* The HTTPException raised for an empty list is raised inside the try block
\* and reaches the catch-all clause.
ExtractFromText ==
    /\ api_pc = "received"
    /\ api_request.endpoint = "analyze_prescription"
    /\ \E extraction \in ExtractionOutcomes :
         LET raised ==
                 IF extraction.kind = "raises" THEN Exception("Exception")
                 ELSE IF extraction.drugs = <<>>
                 THEN HTTPException(400, "No drugs found in prescription text")
                 ELSE NoPending
         IN  /\ api_pending' = raised
             /\ IF raised = NoPending
                THEN /\ api_locals' =
                           [api_locals EXCEPT !.extracted_drugs = extraction.drugs]
                     /\ api_pc' = "analyse"
                     /\ UNCHANGED api_response
                ELSE /\ api_response' = HandledByCatchAll(raised, "Analysis failed")
                     /\ api_pc' = "done"
                     /\ UNCHANGED api_locals
    /\ UNCHANGED <<api_request, api_file, ldVars, ocrVars, nlpVars, anVars,
                   nerVars, dsVars>>

\* analyze_prescription_image: "Validate image format"
ValidateImage ==
    /\ api_pc = "received"
    /\ api_request.endpoint = "analyze_prescription_image"
    /\ IF \/ api_request.content_type = "None"
          \/ ~StartsWith(api_request.content_type, "image/")
       THEN /\ api_response' = HTTPException(400, "Invalid image format")
            /\ api_pc' = "done"
       ELSE /\ api_pc' = "save"
            /\ UNCHANGED api_response
    /\ UNCHANGED <<api_request, api_locals, api_file, api_pending, ldVars,
                   ocrVars, nlpVars, anVars, nerVars, dsVars>>

\* "Step 1: Save image temporarily": NamedTemporaryFile(delete=False) may
\* raise before a file exists; once the file is created temp_file is bound,
\* and image.read() or temp_file.write() may raise before temp_file_path is
\* assigned
SaveImage ==
    /\ api_pc = "save"
    /\ \E outcome \in {"create raises", "read raises", "write raises",
                       "saved"} :
         IF outcome = "create raises"
         THEN /\ api_pending' = Exception("Exception")
              /\ api_pc' = "finally"
              /\ UNCHANGED <<api_locals, api_file>>
         ELSE IF outcome \in {"read raises", "write raises"}
         THEN /\ api_locals' = [api_locals EXCEPT !.temp_file = "file"]
              /\ api_file' = "exists"
              /\ api_pending' = Exception("Exception")
              /\ api_pc' = "finally"
         ELSE /\ api_locals' = [api_locals EXCEPT !.temp_file = "file",
                                                  !.temp_file_path = "path"]
              /\ api_file' = "exists"
              /\ api_pc' = "ocr"
              /\ UNCHANGED api_pending
    /\ UNCHANGED <<api_request, api_response, ldVars, ocrVars, nlpVars,
                   anVars, nerVars, dsVars>>

\* "Step 2: Extract text using OCR" and the check of the text
ExtractText ==
    /\ api_pc = "ocr"
    /\ \E ocr \in OcrOutcomes :
         IF ocr.kind = "raises"
         THEN /\ api_pending' = Exception("Exception")
              /\ api_pc' = "finally"
              /\ UNCHANGED api_locals
         ELSE /\ api_locals' = [api_locals EXCEPT !.extracted_text = ocr.text]
              /\ IF Unreadable(ocr.text)
                 THEN /\ api_pending' =
                            HTTPException(400, "Could not extract readable text from image")
                      /\ api_pc' = "finally"
                 ELSE /\ api_pc' = "extract"
                      /\ UNCHANGED api_pending
    /\ UNCHANGED <<api_request, api_file, api_response, ldVars, ocrVars,
                   nlpVars, anVars, nerVars, dsVars>>

\* analyze_prescription_image, "Step 3: Extract drug entities using NLP"
ExtractFromImageText ==
    /\ api_pc = "extract"
    /\ \E extraction \in ExtractionOutcomes :
         IF extraction.kind = "raises"
         THEN /\ api_pending' = Exception("Exception")
              /\ api_pc' = "finally"
              /\ UNCHANGED api_locals
         ELSE IF extraction.drugs = <<>>
         THEN /\ api_pending' =
                    HTTPException(400, "No drugs found in prescription image")
              /\ api_pc' = "finally"
              /\ UNCHANGED api_locals
         ELSE /\ api_locals' =
                    [api_locals EXCEPT !.extracted_drugs = extraction.drugs]
              /\ api_pc' = "analyse"
              /\ UNCHANGED api_pending
    /\ UNCHANGED <<api_request, api_file, api_response, ldVars, ocrVars,
                   nlpVars, anVars, nerVars, dsVars>>

\* The remaining steps, the same in both endpoints: interactions, dosage
\* advice, alternatives, overall risk and the response.  The text endpoint
\* returns it; the image endpoint leaves through its finally clause.
AnalyzeDrugs ==
    /\ api_pc = "analyse"
    /\ \E interaction_results \in
            {get_interaction(hoddi_data, drug_mapping,
                 [k \in 1..Len(api_locals.extracted_drugs) |->
                     api_locals.extracted_drugs[k].name])} :
       \E enhanced_drugs \in
            {EnhancedDrugs(api_locals.extracted_drugs, interaction_results)} :
       \E dosage_advice \in
            {get_age_based_dosage_advice(enhanced_drugs, api_request.age)} :
       \E response \in
            {AnalysisResponse(enhanced_drugs, interaction_results,
                              dosage_advice)} :
          IF api_request.endpoint = "analyze_prescription"
          THEN /\ api_response' = Response(response)
               /\ api_pc' = "done"
               /\ UNCHANGED api_pending
          ELSE /\ api_pending' =
                     Response([extracted_text |-> api_locals.extracted_text]
                              @@ response)
               /\ api_pc' = "finally"
               /\ UNCHANGED api_response
    /\ UNCHANGED <<api_request, api_locals, api_file, ldVars, ocrVars,
                   nlpVars, anVars, nerVars, dsVars>>

\* "finally: if temp_file and os.path.exists(temp_file_path): os.unlink(...)".
\* Reading temp_file_path before it was assigned raises UnboundLocalError,
\* which replaces the exception on its way out.
CleanUp ==
    /\ api_pc = "finally"
    /\ IF api_locals.temp_file = "None"
       THEN UNCHANGED <<api_file, api_pending>>
       ELSE IF api_locals.temp_file_path = "unbound"
       THEN /\ api_pending' = Exception("UnboundLocalError")
            /\ UNCHANGED api_file
       ELSE /\ api_file' = IF api_file = "exists" THEN "deleted" ELSE api_file
            /\ UNCHANGED api_pending
    /\ api_pc' = "handlers"
    /\ UNCHANGED <<api_request, api_locals, api_response, ldVars, ocrVars,
                   nlpVars, anVars, nerVars, dsVars>>

\* "except HTTPException: raise" and "except Exception as e: raise
\* HTTPException(status_code=500, ...)", or the return of the response
Respond ==
    /\ api_pc = "handlers"
    /\ api_response' =
          IF "exc" \in DOMAIN api_pending
          THEN HandledBeforeCatchAll(api_pending, "Image analysis failed")
          ELSE api_pending
    /\ api_pc' = "done"
    /\ UNCHANGED <<api_request, api_locals, api_file, api_pending, ldVars,
                   ocrVars, nlpVars, anVars, nerVars, dsVars>>

(***************************************************************************)
(* nlp_extractor.py: MedicalNERExtractor, the rule-based extraction.  The  *)
(* patterns are run with re.IGNORECASE.                                    *)
(***************************************************************************)
\* self.drug_patterns; the lookahead of the third pattern is the suffix,
\* which is not part of the match
CommonNames ==
    Alt(<<Lit("paracetamol"), Lit("acetaminophen"), Lit("ibuprofen"),
          Lit("aspirin"), Lit("amoxicillin"), Lit("metformin"),
          Lit("lisinopril"), Lit("atorvastatin"), Lit("omeprazole"),
          Lit("amlodipine")>>)
DrugSuffixes ==
    Alt(<<Lit("cillin"), Lit("mycin"), Lit("prazole"), Lit("statin"),
          Lit("sartan"), Lit("olol"), Lit("pine"), Lit("zide"), Lit("mab"),
          Lit("nib")>>)
drug_patterns ==
    << Pattern(WordBoundary, CommonNames, WordBoundary),
       Pattern(WordBoundary, S3(Letter, Plus(Letter), DrugSuffixes),
               WordBoundary),
       Pattern(WordBoundary,
               Cat(<<Letter, Letter, Letter, Letter, Star(Letter),
                     Opt(S3(Plus(Space), Letter, Plus(Letter)))>>),
               Cat(<<WordBoundary, Plus(Space), Plus(Digit), Star(Space),
                     Alt(<<Lit("mg"), Lit("g"), Lit("ml"), Lit("mcg"),
                           S2(Lit("unit"), Opt(Lit("s")))>>)>>)) >>

\* self.dosage_patterns: group 1 is the number, group 2 the unit
dosage_patterns ==
    << Pattern(WordBoundary, Number,
               S3(Star(Space),
                  Alt(<<Lit("mg"), Lit("g"), Lit("ml"), Lit("mcg"), Lit("μg"),
                        S2(Lit("unit"), Opt(Lit("s"))), Lit("iu"),
                        Lit("meq")>>),
                  WordBoundary)),
       Pattern(WordBoundary, Number,
               S3(Star(Space),
                  Alt(<<S2(Lit("milligram"), Opt(Lit("s"))),
                        S2(Lit("gram"), Opt(Lit("s"))),
                        S2(Lit("milliliter"), Opt(Lit("s"))),
                        S2(Lit("microgram"), Opt(Lit("s"))),
                        Cat(<<Lit("international"), Plus(Space), Lit("unit"),
                              Opt(Lit("s"))>>)>>),
                  WordBoundary)) >>

\* self.frequency_patterns: the first three have a group 1
frequency_patterns ==
    << Pattern(WordBoundary, Plus(Digit),
               Cat(<<Star(Space),
                     Alt(<<S2(Lit("time"), Opt(Lit("s"))), Lit("x")>>),
                     Star(Space),
                     Opt(Alt(<<S2(Lit("per"), Plus(Space)),
                               S2(Lit("a"), Plus(Space))>>)),
                     Lit("day"), WordBoundary>>)),
       Pattern(WordBoundary, Plus(Digit), S2(Lit("/day"), WordBoundary)),
       Pattern(S3(WordBoundary, Lit("every"), Plus(Space)), Plus(Digit),
               Cat(<<Plus(Space), Lit("hour"), Opt(Lit("s")), WordBoundary>>)),
       Bounded(S3(Alt(<<Lit("once"), Lit("twice"), Lit("thrice")>>),
                  Plus(Space),
                  Alt(<<Lit("daily"), S3(Lit("a"), Plus(Space), Lit("day"))>>))),
       Bounded(Alt(<<Lit("morning"), Lit("evening"), Lit("night"),
                     Lit("bedtime")>>)),
       Bounded(Alt(<<Lit("bid"), Lit("tid"), Lit("qid"), Lit("qd"), Lit("prn"),
                     S3(Lit("q"), Plus(Digit), Lit("h"))>>)) >>

\* self.route_patterns
route_patterns ==
    << Bounded(Alt(<<Lit("orally"), Lit("oral"),
                     S3(Lit("by"), Plus(Space), Lit("mouth")), Lit("po")>>)),
       Bounded(Alt(<<Lit("intravenously"), Lit("iv"), Lit("intravenous")>>)),
       Bounded(Alt(<<Lit("intramuscularly"), Lit("im"), Lit("intramuscular")>>)),
       Bounded(Alt(<<Lit("subcutaneously"), Lit("sc"), Lit("sq"),
                     Lit("subcut")>>)),
       Bounded(Alt(<<Lit("topically"), Lit("topical"),
                     Cat(<<Lit("apply"), Plus(Space), Lit("to"), Plus(Space),
                           Lit("skin")>>)>>)),
       Bounded(Alt(<<Lit("inhaled"), Lit("inhalation"), Lit("nebulized")>>)),
       Bounded(Alt(<<Lit("rectally"), Lit("rectal"), Lit("pr")>>)),
       Bounded(Alt(<<Lit("sublingually"), Lit("sublingual"), Lit("sl")>>)) >>

RECURSIVE Search(_, _, _)
\* re.search(p, s): the first match at or after position i, as a record
\* with the span of the match and the span of group 1, or None
Search(p, s, i) ==
    IF i > Len(s) + 1 THEN None
    ELSE LET m == MatchAt(p, s, i)
         IN  IF Len(m) = 0 THEN Search(p, s, i + 1)
             ELSE [start |-> i, end |-> m[3], gstart |-> m[1], gend |-> m[2]]

RECURSIVE FirstSearch(_, _, _)
\* "for pattern in patterns: match = re.search(pattern, s); if match: ...":
\* the first pattern from k on that matches, with its match, or None
FirstSearch(patterns, k, s) ==
    IF k > Len(patterns) THEN None
    ELSE LET match == Search(patterns[k], s, 1)
         IN  IF match # None THEN [pattern |-> k, match |-> match]
             ELSE FirstSearch(patterns, k + 1, s)

RECURSIVE MatchedNames(_, _, _)
\* re.finditer with a pattern of drug_patterns: match.group() of every match
\* from position i on; the search resumes where the match ended
MatchedNames(p, s, i) ==
    IF i > Len(s) + 1 THEN <<>>
    ELSE LET m == MatchAt(p, s, i)
         IN  IF Len(m) = 0 THEN MatchedNames(p, s, i + 1)
             ELSE << SubSeq(s, m[1], m[2] - 1) >>
                  \o MatchedNames(p, s, IF m[2] > i THEN m[2] ELSE i + 1)

common_drugs ==
    << "paracetamol", "acetaminophen", "ibuprofen", "aspirin", "amoxicillin",
       "metformin", "lisinopril", "atorvastatin", "omeprazole", "amlodipine",
       "simvastatin", "levothyroxine", "azithromycin", "hydrochlorothiazide",
       "gabapentin", "clopidogrel", "montelukast", "rosuvastatin",
       "escitalopram", "warfarin", "prednisone", "furosemide", "tramadol",
       "sertraline" >>

\* the set drug_candidates: the stripped matches of the drug patterns, and
\* drug.title() for every common drug found in the lower-cased text
DrugCandidates(text) ==
    UNION {{Strip(names[j]) : j \in 1..Len(names)} :
              names \in {MatchedNames(drug_patterns[k], text, 1) :
                            k \in 1..Len(drug_patterns)}}
    \cup {Title(common_drugs[k]) :
             k \in {j \in 1..Len(common_drugs) :
                       Contains(Lower(text), common_drugs[j])}}

\* text[max(0, drug_pos - before) : drug_pos + after]
SearchWindow(text, drug_pos, before, after) ==
    SubSeq(text,
           (IF drug_pos - before > 0 THEN drug_pos - before ELSE 0) + 1,
           IF drug_pos + after < Len(text) THEN drug_pos + after ELSE Len(text))

WindowBefore    == 25
DosageWindow    == 75
FrequencyWindow == 100
RouteWindow     == 100

\* _extract_dosage_near_drug(text, drug_name)
extract_dosage_near_drug(text, drug_name) ==
    LET drug_pos == Find(Lower(text), Lower(drug_name))
    IN  IF drug_pos = -1 THEN ""
        ELSE
          LET search_window ==
                  SearchWindow(text, drug_pos, WindowBefore, DosageWindow)
              found == FirstSearch(dosage_patterns, 1, search_window)
          IN  IF found = None THEN ""
              ELSE Group1(search_window, found.match)
                   \o LStrip(SubSeq(search_window, found.match.gend,
                                    found.match.end - 1))

\* the dict frequency_terms, in insertion order
frequency_terms ==
    << <<"once daily", "1/day">>, <<"twice daily", "2/day">>,
       <<"thrice daily", "3/day">>, <<"morning", "1/day (morning)">>,
       <<"evening", "1/day (evening)">>, <<"bedtime", "1/day (bedtime)">>,
       <<"bid", "2/day">>, <<"tid", "3/day">>, <<"qid", "4/day">>,
       <<"qd", "1/day">>, <<"prn", "As needed">> >>

\* the label of a frequency match: the tests read the matched text as it is
\* written.  Only the first three patterns can produce "times", "x" or
\* "/day", and they have a group 1 of digits.
FrequencyLabel(search_window, found) ==
    LET group0 == Group0(search_window, found.match)
    IN  IF \/ Contains(group0, "times") \/ Contains(group0, "x")
           \/ Contains(group0, "/day")
        THEN Group1(search_window, found.match) \o "/day"
        ELSE IF Contains(group0, "every")
        THEN "Every " \o Group1(search_window, found.match) \o " hours"
        ELSE group0

\* _extract_frequency_near_drug(text, drug_name)
extract_frequency_near_drug(text, drug_name) ==
    LET drug_pos == Find(Lower(text), Lower(drug_name))
    IN  IF drug_pos = -1 THEN ""
        ELSE
          LET search_window ==
                  SearchWindow(text, drug_pos, WindowBefore, FrequencyWindow)
              found == FirstSearch(frequency_patterns, 1, search_window)
              terms == {k \in 1..Len(frequency_terms) :
                           Contains(Lower(search_window), frequency_terms[k][1])}
          IN  IF found # None THEN FrequencyLabel(search_window, found)
              ELSE IF terms # {}
              THEN frequency_terms[CHOOSE k \in terms :
                                       \A j \in terms : k <= j][2]
              ELSE ""

\* the dict route_map
route_map ==
    { <<"orally", "oral">>, <<"oral", "oral">>, <<"by mouth", "oral">>,
      <<"po", "oral">>, <<"intravenously", "intravenous">>,
      <<"iv", "intravenous">>, <<"intravenous", "intravenous">>,
      <<"intramuscularly", "intramuscular">>, <<"im", "intramuscular">>,
      <<"intramuscular", "intramuscular">>,
      <<"subcutaneously", "subcutaneous">>, <<"sc", "subcutaneous">>,
      <<"sq", "subcutaneous">>, <<"subcut", "subcutaneous">>,
      <<"topically", "topical">>, <<"topical", "topical">>,
      <<"apply to skin", "topical">>, <<"inhaled", "inhalation">>,
      <<"inhalation", "inhalation">>, <<"nebulized", "inhalation">>,
      <<"rectally", "rectal">>, <<"rectal", "rectal">>, <<"pr", "rectal">>,
      <<"sublingually", "sublingual">>, <<"sublingual", "sublingual">>,
      <<"sl", "sublingual">> }

\* _extract_route_near_drug(text, drug_name)
extract_route_near_drug(text, drug_name) ==
    LET drug_pos == Find(Lower(text), Lower(drug_name))
    IN  IF drug_pos = -1 THEN ""
        ELSE
          LET search_window ==
                  SearchWindow(text, drug_pos, WindowBefore, RouteWindow)
              found == FirstSearch(route_patterns, 1, search_window)
          IN  IF found = None THEN ""
              ELSE LET group0 == Group0(search_window, found.match)
                       mapped == {e \in route_map : e[1] = Lower(group0)}
                   IN  IF mapped # {} THEN (CHOOSE e \in mapped : TRUE)[2]
                       ELSE group0

\* the entry _rule_based_extraction builds for one candidate
RuleBasedEntry(text, drug_name) ==
    [drug_name |-> drug_name,
     dosage    |-> extract_dosage_near_drug(text, drug_name),
     frequency |-> extract_frequency_near_drug(text, drug_name),
     route     |-> extract_route_near_drug(text, drug_name)]

\* _rule_based_extraction(text), as the set of its entries: the list holds
\* one entry per element of the set drug_candidates, in the order the set
\* is iterated
rule_based_extraction(text) ==
    {RuleBasedEntry(text, drug_name) : drug_name \in DrugCandidates(text)}

(***************************************************************************)
(* nlp_extractor.py: query_gatortron, _parse_json_from_text and            *)
(* extract_drug_info.  A JSON value is a record with its Python type t and *)
(* its value v; a dict is a function from its keys to JSON values.         *)
(***************************************************************************)
PyStr(s)  == [t |-> "str", v |-> s]
PyInt(n)  == [t |-> "int", v |-> n]
PyList(l) == [t |-> "list", v |-> l]
PyDict(d) == [t |-> "dict", v |-> d]
PyNone    == [t |-> "NoneType", v |-> "None"]
JSONDecodeError == [t |-> "JSONDecodeError", v |-> "raised"]

\* d.get(key, default) on a JSON dict
Get(d, key, default) == IF key \in DOMAIN d.v THEN d.v[key] ELSE default

\* the truth value Python gives a JSON value
Truthy(x) ==
    CASE x.t = "str"      -> x.v # ""
      [] x.t = "int"      -> x.v # 0
      [] x.t = "list"     -> Len(x.v) > 0
      [] x.t = "dict"     -> DOMAIN x.v # {}
      [] x.t = "NoneType" -> FALSE

\* text.rfind(sub)
RFind(s, sub) ==
    LET hits == {i \in 1..(Len(s) - Len(sub) + 1) :
                    SubSeq(s, i, i + Len(sub) - 1) = sub}
    IN  IF hits = {} THEN -1
        ELSE (CHOOSE i \in hits : \A j \in hits : i >= j) - 1

\* text[a:b]
Slice(text, a, b) == SubSeq(text, a + 1, b)

AspirinJson   == "[{\"drug_name\": \"Aspirin\", \"dosage\": \"500mg\"}]"
WarfarinJson  == "[{\"name\": \"Warfarin\"}]"
MixedJson     ==
    "[{\"drug_name\": \"\"}, 5, {\"drug_name\": \"Aspirin\", \"route\": null}]"
UnnamedJson   == "[{\"dosage\": \"500mg\"}]"
MetforminJson == "{\"drug_name\": \"Metformin\"}"
OverloadedJson == "{\"drugs\": 5, \"error\": \"overloaded\"}"
NestedJson    == "{\"drugs\": {\"drug_name\": \"Aspirin\"}}"

\* json.loads on the documents the replies of the model hold; any other
\* string is not JSON
JsonDocuments ==
    << <<AspirinJson,
         PyList(<<PyDict([drug_name |-> PyStr("Aspirin"),
                          dosage |-> PyStr("500mg")])>>)>>,
       <<WarfarinJson, PyList(<<PyDict([name |-> PyStr("Warfarin")])>>)>>,
       <<MixedJson,
         PyList(<<PyDict([drug_name |-> PyStr("")]), PyInt(5),
                  PyDict([drug_name |-> PyStr("Aspirin"),
                          route |-> PyNone])>>)>>,
       <<UnnamedJson, PyList(<<PyDict([dosage |-> PyStr("500mg")])>>)>>,
       <<"[]", PyList(<<>>)>>,
       <<MetforminJson, PyDict([drug_name |-> PyStr("Metformin")])>>,
       <<OverloadedJson,
         PyDict([drugs |-> PyInt(5), error |-> PyStr("overloaded")])>>,
       <<NestedJson,
         PyDict([drugs |-> PyDict([drug_name |-> PyStr("Aspirin")])])>> >>

JsonLoads(json_str) ==
    LET hits == {k \in 1..Len(JsonDocuments) : JsonDocuments[k][1] = json_str}
    IN  IF hits = {} THEN JSONDecodeError
        ELSE JsonDocuments[CHOOSE k \in hits : TRUE][2]

NoDrugs == [drugs |-> PyList(<<>>)]

\* _parse_json_from_text(text): the dict it returns
parse_json_from_text(text) ==
    LET json_start == Find(text, "[")
        json_end   == RFind(text, "]") + 1
        obj_start  == Find(text, "{")
        obj_end    == RFind(text, "}") + 1
    IN  IF json_start # -1 /\ json_end > json_start
        THEN LET parsed == JsonLoads(Slice(text, json_start, json_end))
             IN  IF parsed.t = "JSONDecodeError" THEN NoDrugs
                 ELSE [drugs |-> IF parsed.t = "list" THEN parsed
                                 ELSE PyList(<<parsed>>)]
        ELSE IF obj_start # -1 /\ obj_end > obj_start
        THEN LET parsed == JsonLoads(Slice(text, obj_start, obj_end))
             IN  IF parsed.t = "JSONDecodeError" THEN NoDrugs
                 ELSE IF "drugs" \in DOMAIN parsed.v THEN parsed.v
                 ELSE [drugs |-> PyList(<<parsed>>)]
        ELSE NoDrugs

\* the dicts of the two except clauses of query_gatortron
RequestFailed == [error |-> PyStr("API request failed")]
QueryFailed   == [error |-> PyStr("Query failed")]

\* _parse_json_from_text called from query_gatortron: text.find raises
\* AttributeError when generated_text is not a string, and the except
\* clause of query_gatortron catches it
ParseGenerated(generated_text) ==
    IF generated_text.t = "str" THEN parse_json_from_text(generated_text.v)
    ELSE QueryFailed

\* query_gatortron(text), for what the request does: reply.kind is the
\* exception requests.post, raise_for_status or response.json() raises,
\* or "json" with the decoded body
query_gatortron(reply) ==
    CASE reply.kind = "RequestException" -> RequestFailed
      [] reply.kind = "Exception"        -> QueryFailed
      [] reply.kind = "json" ->
            LET result == reply.body
            IN  IF result.t = "list" /\ Len(result.v) > 0
                THEN IF result.v[1].t # "dict" THEN QueryFailed
                     ELSE ParseGenerated(Get(result.v[1], "generated_text",
                                             PyStr("")))
                ELSE IF result.t = "dict"
                THEN IF "generated_text" \in DOMAIN result.v
                     THEN ParseGenerated(result.v["generated_text"])
                     ELSE result.v
                ELSE [error |-> PyStr("Unexpected response format"),
                      raw |-> result]

\* the dict extract_drug_info builds for one entry of GatorTron
StandardizedDrug(drug) ==
    [drug_name |-> Get(drug, "drug_name", Get(drug, "name", PyStr(""))),
     dosage    |-> Get(drug, "dosage", PyStr("")),
     frequency |-> Get(drug, "frequency", PyStr("")),
     route     |-> Get(drug, "route", PyStr(""))]

RECURSIVE StandardizedDrugsUnfiltered(_)
\* the loop of extract_drug_info without the test on the drug name
StandardizedDrugsUnfiltered(drugs) ==
    IF Len(drugs) = 0 THEN <<>>
    ELSE (IF Head(drugs).t = "dict" THEN <<StandardizedDrug(Head(drugs))>>
          ELSE <<>>)
         \o StandardizedDrugsUnfiltered(Tail(drugs))

RECURSIVE StandardizedDrugs(_)
\* the loop "for drug in drugs" of extract_drug_info over a list: the
\* entries that are dicts and have a drug name
StandardizedDrugs(drugs) ==
    IF Len(drugs) = 0 THEN <<>>
    ELSE (IF /\ Head(drugs).t = "dict"
             /\ Truthy(StandardizedDrug(Head(drugs)).drug_name)
          THEN <<StandardizedDrug(Head(drugs))>>
          ELSE <<>>)
         \o StandardizedDrugs(Tail(drugs))

\* the list standardized_drugs when the try block of extract_drug_info
\* ends: iterating a dict or a string yields strings, which are skipped,
\* and iterating any other value raises TypeError, which is caught
standardized_drugs(result) ==
    IF "error" \notin DOMAIN result /\ "drugs" \in DOMAIN result
    THEN IF result.drugs.t = "list" THEN StandardizedDrugs(result.drugs.v)
         ELSE <<>>
    ELSE <<>>

MaxNerWords == 2
NerVocabulary == <<"aspirin", "Aspirin", "Lipitor 20 mg", "twice daily">>

\* the texts extract_drug_info is called with: empty, blank, and up to
\* MaxNerWords words of the vocabulary
NerTexts ==
    {"", "  "}
    \cup {Join(" ", ws) :
            ws \in {s \in SeqsUpTo({NerVocabulary[k] :
                                      k \in 1..Len(NerVocabulary)},
                                   MaxNerWords) : Len(s) > 0}}

\* the outcomes of the request to GatorTron
GeneratedTexts ==
    << "Result: " \o AspirinJson \o " end", WarfarinJson, MixedJson,
       UnnamedJson, "[]", MetforminJson, OverloadedJson, NestedJson,
       "{\"drugs\": " \o AspirinJson \o "}", "[Aspirin]", "no drugs",
       "] [", "" >>
GatorTronBodies ==
    [k \in 1..Len(GeneratedTexts) |->
        PyList(<<PyDict([generated_text |-> PyStr(GeneratedTexts[k])])>>)]
    \o << PyDict([generated_text |-> PyStr(AspirinJson)]),
          PyDict([generated_text |-> PyNone]),
          PyDict([drugs |-> PyList(<<PyDict([drug_name |-> PyStr("Aspirin"),
                                             frequency |-> PyStr("2/day")])>>)]),
          PyDict([drugs |-> PyInt(5)]),
          PyDict([drugs |-> PyStr("Aspirin")]),
          PyDict([error |-> PyStr("Model is loading"),
                  drugs |-> PyList(<<PyDict([drug_name |-> PyStr("Aspirin")])>>)]),
          PyDict([label |-> PyStr("DRUG")]),
          PyList(<<PyDict(<<>>)>>),
          PyList(<<PyStr("Aspirin")>>),
          PyList(<<>>),
          PyStr("loading") >>
GatorTronReplies ==
    << [kind |-> "RequestException"], [kind |-> "Exception"] >>
    \o [k \in 1..Len(GatorTronBodies) |->
           [kind |-> "json", body |-> GatorTronBodies[k]]]

\* _rule_based_extraction for every text of the model
RuleBasedOf == [text \in NerTexts |-> rule_based_extraction(text)]

\* the orders in which the set drug_candidates can be iterated
Orderings(S) ==
    {order \in [1..Cardinality(S) -> S] :
        \A e \in S : \E k \in 1..Cardinality(S) : order[k] = e}

\* extract_drug_info(medical_text) is called: empty or blank text returns
\* [] at once
ExtractDrugInfo ==
    /\ ner_pc = "idle"
    /\ \E medical_text \in NerTexts :
          IF medical_text = "" \/ Strip(medical_text) = ""
          THEN /\ ner_pc' = "returned"
               /\ ner_call' = [medical_text |-> medical_text]
               /\ ner_result' = <<>>
          ELSE /\ ner_pc' = "query"
               /\ ner_call' = [medical_text |-> medical_text]
               /\ UNCHANGED ner_result
    /\ UNCHANGED <<ner_trace, ldVars, ocrVars, nlpVars, anVars, apiVars, dsVars>>

\* result = self.query_gatortron(medical_text)
QueryGatortron ==
    /\ ner_pc = "query"
    /\ \E k \in 1..Len(GatorTronReplies) :
          ner_call' = [medical_text |-> ner_call.medical_text,
                       reply |-> GatorTronReplies[k],
                       result |-> query_gatortron(GatorTronReplies[k])]
    /\ ner_trace' = Append(ner_trace, "query_gatortron")
    /\ ner_pc' = "standardize"
    /\ UNCHANGED <<ner_result, ldVars, ocrVars, nlpVars, anVars, apiVars, dsVars>>

\* the rest of the try block: the named entries are returned when there
\* are any
ReturnStandardized ==
    /\ ner_pc = "standardize"
    /\ \E drugs \in {standardized_drugs(ner_call.result)} :
          IF Len(drugs) > 0
          THEN /\ ner_pc' = "returned"
               /\ ner_result' = drugs
          ELSE /\ ner_pc' = "fallback"
               /\ UNCHANGED ner_result
    /\ UNCHANGED <<ner_call, ner_trace, ldVars, ocrVars, nlpVars, anVars, apiVars, dsVars>>

\* return self._rule_based_extraction(medical_text): one entry per
\* candidate, in the order the set is iterated
RuleBasedFallback ==
    /\ ner_pc = "fallback"
    /\ ner_trace' = Append(ner_trace, "_rule_based_extraction")
    /\ \E order \in Orderings(RuleBasedOf[ner_call.medical_text]) :
          ner_result' = order
    /\ ner_pc' = "returned"
    /\ UNCHANGED <<ner_call, ldVars, ocrVars, nlpVars, anVars, apiVars, dsVars>>

(***************************************************************************)
(* dosage_system/backend.py: DRUG_DATABASE and calculate_dosage.  A Python *)
(* list is shared by every name bound to it: "warnings =                   *)
(* drug_info['warnings']" binds the list stored in DRUG_DATABASE, and      *)
(* "drug_info['warnings'] + [...]" builds a new one.  Doses are kept in    *)
(* hundredths of a mg, elderly_reduction in hundredths.                    *)
(***************************************************************************)
\* DRUG_DATABASE as the module defines it
DrugDatabaseAtImport ==
    [name \in {"warfarin", "aspirin", "metformin"} |->
        CASE name = "warfarin" ->
                [base_dose |-> 5, elderly_reduction |-> 50,
                 interactions |-> <<"aspirin", "ibuprofen">>,
                 warnings |-> <<"Monitor INR levels", "Bleeding risk">>,
                 alternatives |-> <<"apixaban", "rivaroxaban">>]
          [] name = "aspirin" ->
                [base_dose |-> 81, elderly_reduction |-> 100,
                 interactions |-> <<"warfarin", "ibuprofen">>,
                 warnings |-> <<"GI bleeding risk", "Avoid with peptic ulcers">>,
                 alternatives |-> <<"clopidogrel">>]
          [] name = "metformin" ->
                [base_dose |-> 500, elderly_reduction |-> 75,
                 interactions |-> <<>>,
                 warnings |-> <<"Monitor kidney function", "Lactic acidosis risk">>,
                 alternatives |-> <<"sitagliptin">>]]

\* The most calls of calculate_dosage in one run of the process.
MaxCalls == 3

ElderlyAge   == 65   \* "if age >= 65"
PediatricAge == 18   \* "if age < 18 and weight"
ElderlyScore == 72
AdultScore   == 85
UnknownScore == 50

\* the arguments of calculate_dosage; weight 0 stands for None (and for 0,
\* which "and weight" treats alike)
DosageCalls ==
    [drug_name : {"Warfarin", "aspirin", "Xyz"},
     age : {10, 30, 70},
     weight : {0, 2}]

\* "Max 2mg/kg": min(adjusted_dose, weight * 2), in hundredths
Min(a, b) == IF a < b THEN a ELSE b

\* f"{int(adjusted_dose * 0.8)}-{int(adjusted_dose * 1.2)} mg"
DosageRange(adjusted_dose) ==
    ToString((adjusted_dose * 8) \div 1000) \o "-"
        \o ToString((adjusted_dose * 12) \div 1000) \o " mg"

\* the result for a drug that is not in the database
UnknownDrug ==
    [dosage_range |-> "Consult physician",
     frequency    |-> "As prescribed",
     safety_score |-> UnknownScore,
     warnings     |-> <<"Unknown drug - consult healthcare provider">>,
     interactions |-> <<>>,
     alternatives |-> <<>>,
     explanation  |-> "Drug not found in database"]

\* calculate_dosage(drug_name, age, weight): the dict it returns and the
\* database it leaves
calculate_dosage(database, drug_name, age, weight) ==
    IF Lower(drug_name) \notin DOMAIN database
    THEN [result |-> UnknownDrug, database |-> database]
    ELSE
      LET drug_name_lower == Lower(drug_name)
          drug_info == database[drug_name_lower]
          elderly == age >= ElderlyAge
          pediatric == age < PediatricAge /\ weight # 0
          by_age == IF elderly
                    THEN drug_info.base_dose * drug_info.elderly_reduction
                    ELSE drug_info.base_dose * 100
          \* warnings.append(...): for age >= 65 the list is a new one, else
          \* it is the list of the database entry
          appended == IF pediatric
                      THEN <<"Pediatric dosing - monitor closely">> ELSE <<>>
          warnings ==
              IF elderly
              THEN drug_info.warnings \o <<"Reduce dose for elderly patients">>
                       \o appended
              ELSE drug_info.warnings \o appended
      IN  [result |->
              [dosage_range |-> DosageRange(IF pediatric
                                            THEN Min(by_age, weight * 200)
                                            ELSE by_age),
               frequency    |-> IF elderly THEN "once daily" ELSE "twice daily",
               safety_score |-> IF elderly THEN ElderlyScore ELSE AdultScore,
               warnings     |-> warnings,
               interactions |->
                   [k \in 1..Len(drug_info.interactions) |->
                       drug_name \o " + " \o drug_info.interactions[k]
                           \o ": Potential interaction"],
               alternatives |-> drug_info.alternatives,
               explanation  |-> "Dosage calculated based on age ("
                                    \o ToString(age)
                                    \o ") and standard protocols"],
           database |->
               IF elderly THEN database
               ELSE [database EXCEPT ![drug_name_lower].warnings = warnings]]

\* a caller (recommend_dosage) runs calculate_dosage
CalculateDosage ==
    /\ Len(ds_calls) < MaxCalls
    /\ \E call \in DosageCalls :
       \E outcome \in {calculate_dosage(DRUG_DATABASE, call.drug_name,
                                        call.age, call.weight)} :
          /\ ds_calls' = Append(ds_calls, [call |-> call,
                                           result |-> outcome.result])
          /\ DRUG_DATABASE' = outcome.database
    /\ UNCHANGED <<ldVars, ocrVars, nlpVars, anVars, apiVars, nerVars>>

(***************************************************************************)
(* Specifications: one per component; the other components stay idle.      *)
(***************************************************************************)
LoaderIdle ==
    /\ ld_pc = "idle"
    /\ hoddi_data = <<>>
    /\ drug_mapping = <<>>
    /\ ld_call = NoCall

OcrIdle ==
    /\ ocr_pc = "idle"
    /\ ocr_engines = None
    /\ ocr_image = None
    /\ ocr_invoked = <<>>
    /\ ocr_produced = <<>>
    /\ ocr_results = <<>>
    /\ ocr_return = NoReturn

NlpIdle ==
    /\ nlp_pc = "idle"
    /\ nlp_models = None
    /\ nlp_text = ""
    /\ extraction_results = <<>>
    /\ combined_drugs = <<>>

AnalysisIdle ==
    /\ an_pc = "idle"
    /\ an_call = None
    /\ an_result = NoResult

ApiIdle ==
    /\ api_pc = "idle"
    /\ api_request = None
    /\ api_locals = NoLocals
    /\ api_file = "none"
    /\ api_pending = NoPending
    /\ api_response = NoResponse

NerIdle ==
    /\ ner_pc = "idle"
    /\ ner_call = None
    /\ ner_trace = <<>>
    /\ ner_result = NoResult

DosageIdle ==
    /\ DRUG_DATABASE = <<>>
    /\ ds_calls = <<>>

\* DatasetLoader() before load_datasets
LoaderInit ==
    /\ ld_pc = "new"
    /\ hoddi_data = <<>>
    /\ drug_mapping = <<>>
    /\ ld_call = NoCall
    /\ OcrIdle
    /\ NlpIdle
    /\ AnalysisIdle
    /\ ApiIdle
    /\ NerIdle
    /\ DosageIdle

LoaderNext ==
    \/ load_datasets
    \/ CallGetDrugbankId
    \/ CallCheckDrugInteraction
    \/ CallGetInteraction

SpecLoader == LoaderInit /\ [][LoaderNext]_vars

\* EnhancedOCRReader(): each engine initialised or not
OcrInit ==
    /\ ocr_pc = "start"
    /\ ocr_engines \in [paddle_ocr : BOOLEAN, watson_ocr : BOOLEAN,
                        tesseract_available : BOOLEAN]
    /\ ocr_image = None
    /\ ocr_invoked = <<>>
    /\ ocr_produced = <<>>
    /\ ocr_results = <<>>
    /\ ocr_return = NoReturn
    /\ LoaderIdle
    /\ NlpIdle
    /\ AnalysisIdle
    /\ ApiIdle
    /\ NerIdle
    /\ DosageIdle

OcrNext == OpenImage \/ TryPaddle \/ TryWatson \/ TryTesseract \/ ReturnBest

SpecOcr == OcrInit /\ [][OcrNext]_vars

\* MedicalNLPExtractor(): each model loaded or not; a call with some text
NlpInit ==
    /\ nlp_pc = "biobert"
    /\ nlp_models \in [biobert : BOOLEAN, pubmedbert : BOOLEAN,
                       watson_nlu : BOOLEAN, drug_ner : BOOLEAN]
    /\ nlp_text \in PrescriptionTexts(MaxWords)
    /\ \/ nlp_text \in PrescriptionTexts(MaxWordsWithModels)
       \/ nlp_models = [biobert |-> FALSE, pubmedbert |-> FALSE,
                        watson_nlu |-> FALSE, drug_ner |-> FALSE]
    /\ extraction_results = <<>>
    /\ combined_drugs = <<>>
    /\ LoaderIdle
    /\ OcrIdle
    /\ AnalysisIdle
    /\ ApiIdle
    /\ NerIdle
    /\ DosageIdle

NlpNext ==
    \/ RunBioBERT \/ RunPubMedBERT \/ RunWatsonNLU \/ RunDrugNER
    \/ RunPatterns \/ CombineResults

SpecNlp == NlpInit /\ [][NlpNext]_vars

\* a helper of main.py is called with some arguments
AnalysisInit ==
    /\ an_pc = "called"
    /\ an_call \in AdviceCalls \cup AlternativesCalls \cup RiskCalls
    /\ an_result = NoResult
    /\ LoaderIdle
    /\ OcrIdle
    /\ NlpIdle
    /\ ApiIdle
    /\ NerIdle
    /\ DosageIdle

AnalysisNext ==
    GetAgeBasedDosageAdvice \/ SuggestAlternatives \/ CalculateOverallRisk

SpecAnalysis == AnalysisInit /\ [][AnalysisNext]_vars

\* a request arrives; the tables are the ones DatasetLoader() loaded when
\* main.py was imported
ApiInit ==
    /\ api_pc = "received"
    /\ api_request \in Requests
    /\ api_locals = NoLocals
    /\ api_file = "none"
    /\ api_pending = NoPending
    /\ api_response = NoResponse
    /\ ld_pc = "ready"
    /\ hoddi_data \in HoddiFiles
    /\ drug_mapping \in MappingFiles
    /\ ld_call = NoCall
    /\ OcrIdle
    /\ NlpIdle
    /\ AnalysisIdle
    /\ NerIdle
    /\ DosageIdle

ApiNext ==
    \/ ExtractFromText
    \/ ValidateImage \/ SaveImage \/ ExtractText \/ ExtractFromImageText
    \/ AnalyzeDrugs \/ CleanUp \/ Respond

SpecApi == ApiInit /\ [][ApiNext]_vars

\* dosage_system/backend.py was imported
DosageInit ==
    /\ DRUG_DATABASE = DrugDatabaseAtImport
    /\ ds_calls = <<>>
    /\ LoaderIdle
    /\ OcrIdle
    /\ NlpIdle
    /\ AnalysisIdle
    /\ ApiIdle
    /\ NerIdle

DosageNext == CalculateDosage

SpecDosage == DosageInit /\ [][DosageNext]_vars

NerInit ==
    /\ NerIdle
    /\ LoaderIdle
    /\ OcrIdle
    /\ NlpIdle
    /\ AnalysisIdle
    /\ ApiIdle
    /\ DosageIdle

NerNext ==
    \/ ExtractDrugInfo
    \/ QueryGatortron
    \/ ReturnStandardized
    \/ RuleBasedFallback

SpecNer == NerInit /\ [][NerNext]_vars

Init == LoaderInit \/ OcrInit \/ NlpInit \/ AnalysisInit \/ ApiInit
            \/ DosageInit \/ NerInit
Next == LoaderNext \/ OcrNext \/ NlpNext \/ AnalysisNext \/ ApiNext
            \/ DosageNext \/ NerNext
Spec == Init /\ [][Next]_vars

(***************************************************************************)
(* Properties of DatasetLoader, checked under SpecLoader                    *)
(***************************************************************************)
\* C1: when the interaction table is missing or empty after loading, every
\* interaction lookup returns the sentinel "None": check_drug_interaction
\* returns "None" for every pair, and get_interaction reports interaction =
\* "None" for every drug of any list.  The code returns "Dataset not
\* available" from check_drug_interaction instead, so this does not hold.
C1_EmptyTableLookupsReturnNone ==
    Len(hoddi_data) = 0 =>
        /\ ld_call.op = "check_drug_interaction" => ld_call.result = "None"
        /\ ld_call.op = "get_interaction" =>
              \A i \in 1..Len(ld_call.result) :
                  ld_call.result[i].interaction = "None"

\* the table entries a normalized name matches exactly, and the ones it
\* matches as a substring in either direction
ExactEntries(name) ==
    {i \in 1..Len(drug_mapping) : drug_mapping[i][1] = Strip(Lower(name))}
FuzzyEntries(name) ==
    {i \in 1..Len(drug_mapping) :
        \/ Contains(drug_mapping[i][1], Strip(Lower(name)))
        \/ Contains(Strip(Lower(name)), drug_mapping[i][1])}
Unmapped(name) == ExactEntries(name) = {} /\ FuzzyEntries(name) = {}

\* C11: identity resolution is computed on the normalized name: two inputs
\* with the same lower(trim(name)) get the same identifier, mapped or not.
\* The sentinel is built from the raw name, upper-cased but not trimmed, so
\* surrounding whitespace changes it and this does not hold.
C11_IdentifierOfNormalizedName ==
    ld_call.op = "get_interaction" =>
        \A i, j \in 1..Len(ld_call.drugs) :
            Strip(Lower(ld_call.drugs[i])) = Strip(Lower(ld_call.drugs[j])) =>
                ld_call.result[i].drugbank_id = ld_call.result[j].drugbank_id

\* the identifier exact-then-fuzzy-then-sentinel gives a name
ResolvedId(name) ==
    IF ExactEntries(name) # {}
    THEN drug_mapping[CHOOSE i \in ExactEntries(name) : TRUE][2]
    ELSE IF FuzzyEntries(name) # {}
    THEN drug_mapping[CHOOSE i \in FuzzyEntries(name) :
                         \A j \in FuzzyEntries(name) : i <= j][2]
    ELSE "DB_UNKNOWN_" \o Upper(name)

\* C12: get_drugbank_id is total and goes exact, then fuzzy, then sentinel:
\* the identifier of the entry whose key is the normalized name, even when
\* an earlier entry matches as a substring; else that of the first entry, in
\* table order, whose name contains the input or is contained in it; else
\* DB_UNKNOWN_<UPPER(name)>, also with an empty table.
C12_ExactThenFuzzyThenSentinel ==
    /\ ld_call.op = "get_drugbank_id" =>
          ld_call.result = ResolvedId(ld_call.drugs[1])
    /\ ld_call.op = "get_interaction" =>
          \A i \in 1..Len(ld_call.drugs) :
              ld_call.result[i].drugbank_id = ResolvedId(ld_call.drugs[i])

\* "Warfarin " is resolved by its exact entry although the entry
\* "warfarin sodium", with another identifier, comes first in the table
C12_Witness ==
    /\ ld_call.op = "get_drugbank_id"
    /\ ld_call.drugs = <<"Warfarin ">>
    /\ Len(drug_mapping) > 0
    /\ drug_mapping[1] = <<"warfarin sodium", "DB01418">>
    /\ ld_call.result = "DB00682"

\* C13: with a non-empty interaction table, a drug that resolves to a
\* sentinel never matches a record: check_drug_interaction with it returns
\* "None", and get_interaction lists no interaction for it or with it.
C13_SentinelNeverMatches ==
    Len(hoddi_data) > 0 =>
        /\ ld_call.op = "check_drug_interaction" =>
              ((Unmapped(ld_call.drugs[1]) \/ Unmapped(ld_call.drugs[2])) =>
                  ld_call.result = "None")
        /\ ld_call.op = "get_interaction" =>
              \A i \in 1..Len(ld_call.drugs) :
                  Unmapped(ld_call.drugs[i]) =>
                      /\ ld_call.result[i].interaction = "None"
                      /\ \A j \in 1..Len(ld_call.drugs) :
                            ~Contains(ld_call.result[j].interaction,
                                      "with " \o ld_call.drugs[i] \o ":")

\* an unmapped "Xyz" is checked against a mapped drug that has a record
C13_Witness ==
    /\ ld_call.op = "check_drug_interaction"
    /\ Len(hoddi_data) > 0 /\ Len(drug_mapping) > 0
    /\ ld_call.drugs = <<"Xyz", "aspirin">>
    /\ \E i \in 1..Len(hoddi_data) : hoddi_data[i].drug1_drugbank_id = "DB00945"
    /\ ld_call.result = "None"

\* what a lookup can answer besides "None"
LookupTexts ==
    {"Dataset not available"}
    \cup {hoddi_data[i].severity \o ": " \o hoddi_data[i].description :
             i \in 1..Len(hoddi_data)}

\* C14: interaction lookup is symmetric: check_drug_interaction(A, B) gives
\* the text check_drug_interaction(B, A) gives, for tables that hold the
\* record as (A, B), as (B, A) or both ways; in get_interaction, A lists an
\* interaction with B exactly when B lists one with A.
C14_LookupIsSymmetric ==
    /\ ld_call.op = "check_drug_interaction" =>
          ld_call.result = check_drug_interaction(hoddi_data, drug_mapping,
                                ld_call.drugs[2], ld_call.drugs[1])
    /\ ld_call.op = "get_interaction" =>
          \A i, j \in 1..Len(ld_call.drugs) : \A t \in LookupTexts :
              i # j =>
                  (Contains(ld_call.result[i].interaction,
                            "with " \o ld_call.drugs[j] \o ": " \o t)
                   <=> Contains(ld_call.result[j].interaction,
                                "with " \o ld_call.drugs[i] \o ": " \o t))

\* the table holds the pair both ways, with different texts, and the pair is
\* looked up in the order of the second record
C14_Witness ==
    /\ ld_call.op = "check_drug_interaction"
    /\ ld_call.drugs = <<"aspirin", "Warfarin ">>
    /\ Len(hoddi_data) = 2
    /\ hoddi_data[1].drug1_drugbank_id = "DB00682"
    /\ hoddi_data[2].drug1_drugbank_id = "DB00945"
    /\ ld_call.result = "Moderate: monitor INR"

RECURSIVE RecordHits(_, _, _)
\* the hits of drugs[i] with the other drugs from position j on: one per
\* other drug that has a table record with it in either ordering
RecordHits(drugs, i, j) ==
    IF j > Len(drugs) THEN <<>>
    ELSE
      LET a == ResolvedId(drugs[i])
          b == ResolvedId(drugs[j])
          rows == {k \in 1..Len(hoddi_data) :
                     \/ /\ hoddi_data[k].drug1_drugbank_id = a
                        /\ hoddi_data[k].drug2_drugbank_id = b
                     \/ /\ hoddi_data[k].drug1_drugbank_id = b
                        /\ hoddi_data[k].drug2_drugbank_id = a}
      IN  (IF i # j /\ rows # {}
           THEN LET row == hoddi_data[CHOOSE k \in rows : \A l \in rows : k <= l]
                IN  << "with " \o drugs[j] \o ": " \o row.severity \o ": "
                          \o row.description >>
           ELSE <<>>)
          \o RecordHits(drugs, i, j + 1)

\* C15: get_interaction returns one result per input drug, in input order;
\* the interaction of a drug is the literal "None" exactly when no other
\* drug of the list has a table record with it in either ordering, and
\* otherwise the hits in list order, "with <other>: <severity>:
\* <description>", joined with "; ".  With an empty table the code lists
\* "with <other>: Dataset not available" for every other drug, so this does
\* not hold.
C15_OneResultPerDrug ==
    ld_call.op = "get_interaction" =>
        /\ Len(ld_call.result) = Len(ld_call.drugs)
        /\ \A i \in 1..Len(ld_call.drugs) :
              /\ ld_call.result[i].drug = Strip(ld_call.drugs[i])
              /\ ld_call.result[i].interaction =
                    IF RecordHits(ld_call.drugs, i, 1) = <<>> THEN "None"
                    ELSE Join("; ", RecordHits(ld_call.drugs, i, 1))

(***************************************************************************)
(* Properties of EnhancedOCRReader, checked under SpecOcr                   *)
(***************************************************************************)
EngineOrder == <<"PaddleOCR", "IBM Watson", "Tesseract">>

\* the results the engines have produced so far in this call
ProducedResults == {ocr_produced[k] : k \in 1..Len(ocr_produced)}
PooledResults   == {ocr_results[k] : k \in 1..Len(ocr_results)}

\* the short-circuit threshold the cascade applies to a result, in hundredths
ThresholdFor(r) == IF r.method = "PaddleOCR" THEN 60 ELSE 40
HasThreshold(r) == r.method \in {"PaddleOCR", "Tesseract"}
Exceeds(r) == r.confidence.num > ThresholdFor(r) * r.confidence.den
Equals(r)  == r.confidence.num = ThresholdFor(r) * r.confidence.den

\* C2: the engines run in the order PaddleOCR, Watson, Tesseract; a result
\* whose confidence is strictly greater than its engine's threshold (0.6 for
\* PaddleOCR, 0.4 for Tesseract) is returned at once and no later engine is
\* invoked; a confidence equal to the threshold does not end the call.
C2_ShortCircuitAboveThreshold ==
    /\ \E n \in 0..3 : ocr_invoked = SubSeq(EngineOrder, 1, n)
    /\ \A r \in ProducedResults :
          /\ (HasThreshold(r) /\ Exceeds(r)) =>
                /\ ocr_pc = "done"
                /\ ocr_return = [kind |-> "return", result |-> r]
                /\ ocr_invoked[Len(ocr_invoked)] = r.method
          /\ (HasThreshold(r) /\ Equals(r)) =>
                /\ r \in PooledResults
                /\ r.method = "PaddleOCR" =>
                      (ocr_pc = "watson" \/ Len(ocr_invoked) >= 2)

\* PaddleOCR returned above its threshold while Watson was available and was
\* never invoked
C2_Witness ==
    /\ ocr_pc = "done"
    /\ ocr_invoked = <<"PaddleOCR">>
    /\ ocr_engines.watson_ocr /\ ocr_engines.tesseract_available
    /\ ocr_return.kind = "return"
    /\ ocr_return.result.confidence.num > 60 * ocr_return.result.confidence.den

\* C3: a result that does not exceed its engine's threshold is kept in the
\* candidate pool and the next engine is tried; when no engine ends the
\* call early and the pool is not empty, the call returns the pooled
\* candidate of maximum confidence.
C3_PoolAndBestCandidate ==
    /\ \A r \in ProducedResults :
          (HasThreshold(r) /\ ~Exceeds(r)) =>
              /\ r \in PooledResults
              /\ r.method = "PaddleOCR" =>
                    (ocr_pc = "watson" \/ Len(ocr_invoked) >= 2)
    /\ ( /\ ocr_pc = "done"
         /\ ocr_invoked = EngineOrder
         /\ \A r \in ProducedResults : HasThreshold(r) /\ ~Exceeds(r)
         /\ ocr_results # <<>> ) =>
            /\ ocr_return.kind = "return"
            /\ ocr_return.result \in PooledResults
            /\ \A q \in PooledResults :
                  q.confidence.num * ocr_return.result.confidence.den
                      <= ocr_return.result.confidence.num * q.confidence.den

\* two candidates were pooled and the call returned the better one
C3_Witness ==
    /\ ocr_pc = "done"
    /\ Len(ocr_results) = 2
    /\ ocr_return.kind = "return"
    /\ ocr_return.result \in PooledResults
    /\ \E q \in PooledResults :
          q.confidence.num * ocr_return.result.confidence.den
              < ocr_return.result.confidence.num * q.confidence.den

\* the image was read: the input handling of the call raised nothing
ImageDecodes ==
    /\ ocr_image.type \in {"bytes", "str", "Image"}
    /\ ocr_image.opens

\* C4: for an image that decodes, the call fails if and only if every
\* engine yields no result; an engine that is unavailable, raises or finds
\* no text never makes the call fail while another engine yields a result.
C4_FailsIffNoEngineResult ==
    (ocr_pc = "done" /\ ImageDecodes) =>
        /\ ocr_return.kind \in {"raise", "return"}
        /\ ocr_return.kind = "raise" <=> ocr_produced = <<>>
        /\ ocr_return.kind = "return" => ocr_return.result \in ProducedResults

\* PaddleOCR and Watson are unavailable and the call returns what Tesseract
\* found below its threshold
C4_Witness ==
    /\ ocr_pc = "done"
    /\ ImageDecodes
    /\ ~ocr_engines.paddle_ocr /\ ~ocr_engines.watson_ocr
    /\ ocr_invoked = EngineOrder
    /\ ocr_return.kind = "return"
    /\ ocr_return.result.method = "Tesseract"
    /\ ocr_return.result.confidence.num <= 40 * ocr_return.result.confidence.den

(***************************************************************************)
(* Properties of MedicalNLPExtractor, checked under SpecNlp                 *)
(***************************************************************************)
RECURSIVE Detections(_)
\* The detections fusion retains, in the order it meets them: every name a
\* result contributes, with the key lower(trim(name)) and the confidence and
\* method of the result it comes from.
Detections(results) ==
    IF Len(results) = 0 THEN <<>>
    ELSE LET r == Head(results)
             names == MentionsOf(r)
         IN  [k \in 1..Len(names) |->
                 [key        |-> Strip(Lower(names[k])),
                  name       |-> names[k],
                  confidence |-> r.confidence,
                  method     |-> r.method]]
             \o Detections(Tail(results))

FusedEntities == {combined_drugs[k] : k \in 1..Len(combined_drugs)}
FusedKeys     == {Strip(Lower(e.name)) : e \in FusedEntities}

\* detection w of ds is the first one that attains the maximum confidence
\* among the detections with its key
FirstMaximal(ds, w) ==
    /\ \A j \in 1..Len(ds) :
          ds[j].key = ds[w].key => ds[j].confidence <= ds[w].confidence
    /\ \A j \in 1..(w - 1) :
          ds[j].key = ds[w].key => ds[j].confidence < ds[w].confidence

Reordered(results, perm) == [k \in 1..Len(results) |-> results[perm[k]]]

KeysOf(entities) ==
    {Strip(Lower(entities[k].name)) : k \in 1..Len(entities)}

\* C6: the fused output holds exactly one entity for each distinct key
\* lower(trim(name)) among the retained detections and nothing else; two
\* detections merge only when their keys are equal, so fusing the same
\* detections again, or in another order, yields the same set of keys.
C6_OneEntityPerKey ==
    nlp_pc = "done" =>
        LET ds == Detections(extraction_results)
            keys == {ds[i].key : i \in 1..Len(ds)}
        IN  /\ FusedKeys = keys
            /\ Len(combined_drugs) = Cardinality(keys)
            /\ \A perm \in Permutations(1..Len(extraction_results)) :
                  KeysOf(combine_drug_extractions(
                             Reordered(extraction_results, perm), nlp_text))
                      = keys

\* two detections were merged under one key while a mention that contains
\* another one stayed a separate entity
C6_Witness ==
    /\ nlp_pc = "done"
    /\ Len(Detections(extraction_results)) > Len(combined_drugs)
    /\ \E a, b \in FusedKeys : a # b /\ Contains(b, a)
    /\ \E i, j \in 1..Len(Detections(extraction_results)) :
          /\ Detections(extraction_results)[i].name
                 # Detections(extraction_results)[j].name
          /\ Detections(extraction_results)[i].key
                 = Detections(extraction_results)[j].key

\* C7: fusion discards every detection whose mention text has 2 characters
\* or fewer, whichever extractor produced it, so no fused entity has such a
\* name.  The code filters only the results that hold a 'drugs' list; the
\* names from pattern matching are not filtered, so this does not hold.
C7_NoShortMention ==
    nlp_pc = "done" => \A e \in FusedEntities : Len(e.name) > 2

\* C8: every fused entity preserves the method of the detection that won
\* its key.  DrugEntity has no such field, so this does not hold.
C8_SourceMethodPreserved ==
    nlp_pc = "done" =>
        \A e \in FusedEntities :
            /\ "method" \in DOMAIN e
            /\ LET ds == Detections(extraction_results)
               IN  \E w \in 1..Len(ds) :
                      /\ FirstMaximal(ds, w)
                      /\ ds[w].name = e.name
                      /\ ds[w].method = e.method

Distance(a, b) == IF a < b THEN b - a ELSE a - b

\* the span nearest to drug_pos by its own offset, the earliest on a tie
NearestSpan(spans, drug_pos) ==
    spans[CHOOSE i \in 1..Len(spans) :
             /\ \A j \in 1..Len(spans) :
                   Distance(spans[i].offset, drug_pos)
                       <= Distance(spans[j].offset, drug_pos)
             /\ \A j \in 1..(i - 1) :
                   Distance(spans[j].offset, drug_pos)
                       > Distance(spans[i].offset, drug_pos)]

\* C9: when the offset of the drug mention in the text is known, the binder
\* returns, among the candidates of one kind, the one whose own offset (the
\* position of the span it was extracted from) is nearest to the mention,
\* the earliest on a tie, also when the same candidate text occurs at
\* several positions.  The code looks every candidate up again with
\* str.find, which gives the first occurrence of its text, so this does not
\* hold.
C9_ClosestByCandidateOffset ==
    nlp_pc = "done" =>
        LET spans == PatternSpans(nlp_text)
        IN  \A e \in FusedEntities : \A field \in AttributeFields :
                LET drug_pos == Find(Lower(nlp_text), Lower(e.name))
                    of_kind == spans[AttributeList(field)]
                IN  (drug_pos # -1 /\ Len(of_kind) > 0) =>
                        e[field] = NearestSpan(of_kind, drug_pos).text

\* C10: when no candidate of a kind exists the binder returns the empty
\* string, so dosage, frequency, route and duration of a fused entity are
\* always present as strings; when candidates exist but the offset of the
\* mention is unknown, it returns the first candidate in encounter order.
C10_BinderFallbacks ==
    nlp_pc = "done" =>
        LET pattern_data == extraction_results[Len(extraction_results)].results
        IN  \A e \in FusedEntities : \A field \in AttributeFields :
                LET candidates == pattern_data[AttributeList(field)]
                    drug_pos == Find(Lower(nlp_text), Lower(e.name))
                IN  /\ field \in DOMAIN e
                    /\ e[field] \in
                          {""} \cup {candidates[k] : k \in 1..Len(candidates)}
                    /\ Len(candidates) = 0 => e[field] = ""
                    /\ (Len(candidates) > 0 /\ drug_pos = -1) =>
                          e[field] = candidates[1]

\* a drug that a model named is not in the text: it takes the first of two
\* different dosages, and an empty route since the text names none
C10_Witness ==
    /\ nlp_pc = "done"
    /\ LET pattern_data == extraction_results[Len(extraction_results)].results
       IN  /\ Len(pattern_data.dosages) >= 2
           /\ pattern_data.dosages[1] # pattern_data.dosages[Len(pattern_data.dosages)]
           /\ Len(pattern_data.routes) = 0
           /\ \E e \in FusedEntities :
                 /\ Find(Lower(nlp_text), Lower(e.name)) = -1
                 /\ e.dosage = pattern_data.dosages[1]
                 /\ e.route = ""

(***************************************************************************)
(* Properties of the analysis helpers of main.py, checked under            *)
(* SpecAnalysis                                                            *)
(***************************************************************************)
Returned_(op) == an_pc = "returned" /\ an_call.op = op

TextHas(text, word) == Contains(Lower(text), word)

\* the signals of a call of _calculate_overall_risk at one level
HighSignals ==
    {<<"interaction", k>> : k \in {i \in 1..Len(an_call.interaction_results) :
        \/ TextHas(an_call.interaction_results[i].interaction, "severe")
        \/ TextHas(an_call.interaction_results[i].interaction, "major")}}
    \cup {<<"advice", k>> : k \in {i \in 1..Len(an_call.dosage_advice) :
        an_call.dosage_advice[i].risk_level = "High"}}
MediumSignals ==
    {<<"interaction", k>> : k \in {i \in 1..Len(an_call.interaction_results) :
        \/ TextHas(an_call.interaction_results[i].interaction, "moderate")
        \/ TextHas(an_call.interaction_results[i].interaction, "warning")}}
    \cup {<<"advice", k>> : k \in {i \in 1..Len(an_call.dosage_advice) :
        an_call.dosage_advice[i].risk_level = "Medium"}}

\* C16: the overall risk is monotone in the signals: High when any
\* interaction text contains "severe" or "major" or any advice has risk
\* High, however many Low and Medium signals there are; else Medium when any
\* interaction contains "moderate" or "warning" or any advice is Medium;
\* else Low.
C16_OverallRiskIsMonotone ==
    Returned_("calculate_overall_risk") =>
        an_result = IF HighSignals # {} THEN "High"
                    ELSE IF MediumSignals # {} THEN "Medium"
                    ELSE "Low"

\* one High signal among at least two Medium ones still gives High
C16_Witness ==
    /\ Returned_("calculate_overall_risk")
    /\ Cardinality(HighSignals) = 1
    /\ Cardinality(MediumSignals) >= 2
    /\ an_result = "High"

\* the drugs of the substitution table with the alternative shown for each
Substitutions ==
    { <<"paracetamol", "Ibuprofen">>, <<"acetaminophen", "Ibuprofen">>,
      <<"aspirin", "Paracetamol">>, <<"ibuprofen", "Naproxen">>,
      <<"warfarin", "Rivaroxaban">>, <<"metformin", "Glipizide">> }

\* the positions of the interaction results that qualify for an alternative
Qualifying ==
    {i \in 1..Len(an_call.interaction_results) :
        /\ TextHas(an_call.interaction_results[i].interaction, "severe")
        /\ \E sub \in Substitutions :
              sub[1] = Lower(an_call.interaction_results[i].drug)}

\* the k-th qualifying position, k being 1 or 2
QualifyingAt(k) ==
    LET first == CHOOSE i \in Qualifying : \A j \in Qualifying : i <= j
    IN  IF k = 1 THEN first
        ELSE CHOOSE i \in Qualifying \ {first} :
                 \A j \in Qualifying \ {first} : i <= j

\* C17: the alternatives list never has more than 2 entries and holds the
\* first (at most two) qualifying drugs in interaction-result order.
C17_AtMostTwoAlternatives ==
    Returned_("suggest_alternatives") =>
        /\ Len(an_result) <= 2
        /\ Len(an_result) = IF Cardinality(Qualifying) < 2
                            THEN Cardinality(Qualifying) ELSE 2
        /\ \A k \in 1..Len(an_result) :
              LET r == an_call.interaction_results[QualifyingAt(k)]
              IN  /\ an_result[k].original_drug = r.drug
                  /\ an_result[k].reason =
                        "Safer alternative due to interaction risk: "
                            \o r.interaction

\* five qualifying interactions, and the output is the first two
C17_Witness ==
    /\ Returned_("suggest_alternatives")
    /\ Len(an_call.interaction_results) = 5
    /\ Cardinality(Qualifying) = 5
    /\ an_call.interaction_results[1].drug # an_call.interaction_results[2].drug
    /\ an_call.interaction_results[3].drug = an_call.interaction_results[2].drug
    /\ Len(an_result) = 2
    /\ an_result[1].original_drug = an_call.interaction_results[1].drug
    /\ an_result[2].original_drug = an_call.interaction_results[2].drug

\* C18: an alternative is suggested for a drug only when an interaction of
\* that drug contains "severe" and the drug has an entry in the fixed
\* substitution table (warfarin gives rivaroxaban); interactions that are
\* only major, moderate or "None" never produce one.
C18_AlternativeOnlyForSevere ==
    Returned_("suggest_alternatives") =>
        \A k \in 1..Len(an_result) :
            \E i \in 1..Len(an_call.interaction_results) :
                LET r == an_call.interaction_results[i]
                IN  /\ r.drug = an_result[k].original_drug
                    /\ r.interaction # "None"
                    /\ TextHas(r.interaction, "severe")
                    /\ <<Lower(r.drug), an_result[k].alternative>>
                           \in Substitutions

\* Warfarin gets Rivaroxaban for its severe interaction while a major, a
\* moderate and a "None" interaction of mapped drugs produce nothing
C18_Witness ==
    /\ Returned_("suggest_alternatives")
    /\ Len(an_result) = 1
    /\ an_result[1].original_drug = "Warfarin"
    /\ an_result[1].alternative = "Rivaroxaban"
    /\ \E i, j, k \in 1..Len(an_call.interaction_results) :
          /\ TextHas(an_call.interaction_results[i].interaction, "major")
          /\ TextHas(an_call.interaction_results[j].interaction, "moderate")
          /\ an_call.interaction_results[k].interaction = "None"

\* C19: pediatric rule: for every age < 18, a current dose of 500mg is
\* halved to 250mg with risk Medium, 1000mg is halved to 500mg with risk
\* High, and every other dose is kept, with the advice to verify pediatric
\* guidelines and risk Medium.  The code tests "500mg" in current_dosage, a
\* substring test that 1500mg passes as well, so this does not hold.
C19_PediatricRule ==
    (Returned_("get_age_based_dosage_advice") /\ an_call.age < 18) =>
        \A k \in 1..Len(an_call.drugs) :
            LET dose == an_call.drugs[k].dosage
                advice == an_result[k]
            IN  /\ dose = "500mg" =>
                      /\ advice.recommended_dosage = "250mg"
                      /\ advice.risk_level = "Medium"
                /\ dose = "1000mg" =>
                      /\ advice.recommended_dosage = "500mg"
                      /\ advice.risk_level = "High"
                /\ dose \notin {"500mg", "1000mg"} =>
                      /\ advice.recommended_dosage = dose
                      /\ advice.advice = "Verify pediatric dosing guidelines"
                      /\ advice.risk_level = "Medium"

\* C20: geriatric rule: for every age > 65, 1000mg is reduced to 750mg with
\* risk Medium; 500mg given three times daily keeps its dose, with the
\* advice to reduce frequency and risk Medium; every other combination keeps
\* its dose, with 'standard dosage appropriate' and risk Low.  The substring
\* test "500mg" in current_dosage also takes 1500mg given 3/day, so this
\* does not hold.
C20_GeriatricRule ==
    (Returned_("get_age_based_dosage_advice") /\ an_call.age > 65) =>
        \A k \in 1..Len(an_call.drugs) :
            LET dose == an_call.drugs[k].dosage
                thrice == an_call.drugs[k].frequency = "3/day"
                advice == an_result[k]
            IN  /\ dose = "1000mg" =>
                      /\ advice.recommended_dosage = "750mg"
                      /\ advice.risk_level = "Medium"
                /\ (dose = "500mg" /\ thrice) =>
                      /\ advice.recommended_dosage = dose
                      /\ advice.advice =
                            "Consider reducing frequency for elderly patients"
                      /\ advice.risk_level = "Medium"
                /\ (dose # "1000mg" /\ ~(dose = "500mg" /\ thrice)) =>
                      /\ advice.recommended_dosage = dose
                      /\ advice.advice = "Standard adult dosage appropriate"
                      /\ advice.risk_level = "Low"

\* C21: adult band: for every age from 18 to 65 inclusive and every drug,
\* the advice has risk Low, the recommended dose equals the current dose and
\* the advice text is the standard one, whatever the dose and frequency; one
\* advice entry is produced per drug, in drug order.
C21_AdultBand ==
    (Returned_("get_age_based_dosage_advice")
        /\ an_call.age >= 18 /\ an_call.age <= 65) =>
        /\ Len(an_result) = Len(an_call.drugs)
        /\ \A k \in 1..Len(an_call.drugs) :
              /\ an_result[k].drug = an_call.drugs[k].name
              /\ an_result[k].current_dosage = an_call.drugs[k].dosage
              /\ an_result[k].recommended_dosage = an_call.drugs[k].dosage
              /\ an_result[k].advice = "Standard adult dosage appropriate"
              /\ an_result[k].risk_level = "Low"

\* a returned call at a boundary age with the doses the other bands change:
\* two different drugs, one at 1000mg and one at 500mg three times daily
C21_Witness ==
    /\ Returned_("get_age_based_dosage_advice")
    /\ an_call.age \in {18, 65}
    /\ Len(an_call.drugs) = 2
    /\ an_call.drugs[1].name # an_call.drugs[2].name
    /\ an_call.drugs[1].dosage = "1000mg"
    /\ an_call.drugs[2].dosage = "500mg"
    /\ an_call.drugs[2].frequency = "3/day"
    /\ an_result[1].risk_level = "Low"
    /\ an_result[2].risk_level = "Low"

\* C27: no suggested alternative is a drug of the analysed prescription:
\* each entry returned by _suggest_alternatives names an alternative that
\* differs, case-insensitively, from every drug in the interaction results.
\* The table is looked up without regard to the other drugs, so this does
\* not hold.
C27_AlternativeNotPrescribed ==
    Returned_("suggest_alternatives") =>
        \A k \in 1..Len(an_result) :
            \A i \in 1..Len(an_call.interaction_results) :
                Lower(an_result[k].alternative)
                    # Lower(an_call.interaction_results[i].drug)

(***************************************************************************)
(* Further properties of extract_text_from_image, checked under SpecOcr    *)
(***************************************************************************)
\* the input is of a type or of a format the function does not support
UnsupportedInput ==
    \/ ocr_image.type = "other"
    \/ /\ ocr_image.opens
       /\ ocr_image.format \notin {"none", "JPEG", "PNG", "JPG"}

\* C23: extract_text_from_image signals its two failure kinds with
\* different errors: ValueError when the image input type or the image
\* format is not supported, RuntimeError only when all OCR methods fail.
\* Both raises are inside the try block whose handler re-raises every
\* exception as a RuntimeError, so this does not hold.
C23_ValueErrorForUnsupportedInput ==
    (ocr_pc = "done" /\ ocr_return.kind = "raise") =>
        /\ UnsupportedInput => ocr_return.error = "ValueError"
        /\ ocr_return.error = "RuntimeError" =>
              (~UnsupportedInput /\ ocr_invoked = EngineOrder
                  /\ ocr_produced = <<>>)

\* C26: the cascade never returns a result worse than one it already holds:
\* the confidence of the returned result is greater than or equal to the
\* confidence of every result an engine produced earlier in the same call.
\* An engine that exceeds its own threshold ends the call without a look at
\* the pool, so this does not hold.
C26_ReturnedNotWorseThanHeld ==
    (ocr_pc = "done" /\ ocr_return.kind = "return") =>
        \A k \in 1..Len(ocr_produced) :
            ocr_produced[k].confidence.num * ocr_return.result.confidence.den
                <= ocr_return.result.confidence.num
                       * ocr_produced[k].confidence.den

(***************************************************************************)
(* Further properties of the fusion, checked under SpecNlp                 *)
(***************************************************************************)
\* the drug mentions a result reports, whatever the key it reports them
\* under: 'drugs', 'drug_candidates', 'results' or, for Watson NLU, the
\* entities of type Drug
ReportedMentions(r) ==
    IF "drugs" \in DOMAIN r
    THEN {IF "name" \in DOMAIN r.drugs[k] THEN r.drugs[k].name
          ELSE IF "text" \in DOMAIN r.drugs[k] THEN r.drugs[k].text
          ELSE "" : k \in 1..Len(r.drugs)}
    ELSE IF "drug_candidates" \in DOMAIN r
    THEN {r.drug_candidates[k] : k \in 1..Len(r.drug_candidates)}
    ELSE IF "results" \in DOMAIN r
    THEN {r.results.drugs[k] : k \in 1..Len(r.results.drugs)}
    ELSE IF "entities" \in DOMAIN r
    THEN {r.entities[k].text :
             k \in {j \in 1..Len(r.entities) : r.entities[j].type = "Drug"}}
    ELSE {}

\* no mention of a result other than Watson NLU's is lost
MentionsKeptExceptWatsonNLU ==
    nlp_pc = "done" =>
        \A k \in 1..Len(extraction_results) :
            extraction_results[k].method # "Watson NLU" =>
                \A name \in ReportedMentions(extraction_results[k]) :
                    Len(name) > 2 => Strip(Lower(name)) \in FusedKeys

\* C30: fusion considers the detections of every extractor that returned a
\* result: every drug mention a result reports that passes the length
\* filter has its normalized key among the fused entities.  The Watson NLU
\* result holds 'entities' and 'keywords', none of the keys fusion reads, so
\* this does not hold.
C30_EveryExtractorConsidered ==
    nlp_pc = "done" =>
        \A k \in 1..Len(extraction_results) :
            \A name \in ReportedMentions(extraction_results[k]) :
                Len(name) > 2 => Strip(Lower(name)) \in FusedKeys

(***************************************************************************)
(* Properties of the endpoints of main.py, checked under SpecApi           *)
(***************************************************************************)
\* the request ended because extraction found no drug
NoDrugsFound ==
    /\ api_pc = "done"
    /\ "exc" \in DOMAIN api_pending
    /\ api_pending.exc = "HTTPException"
    /\ StartsWith(api_pending.detail, "No drugs found")

\* C22: when extraction yields no drug entities, the request fails with a
\* 'no drugs found' error the caller can tell from an internal failure: a
\* 400 with a no-drugs message, not a generic 500, on the text endpoint and
\* on the image endpoint.  The text endpoint raises its 400 inside the try
\* block whose only handler turns every exception into a 500, so this does
\* not hold.
C22_NoDrugsIsDistinctError ==
    NoDrugsFound =>
        /\ api_response.status_code = 400
        /\ StartsWith(api_response.detail, "No drugs found")

\* C28: every temporary file created for an uploaded image is deleted
\* before the request finishes, on every outcome.  When reading or writing
\* the upload raises, temp_file_path was never assigned and the finally
\* clause fails before it unlinks the file, so this does not hold.
C28_TempFileDeleted ==
    api_pc = "done" => api_file # "exists"

(***************************************************************************)
(* Properties of calculate_dosage, checked under SpecDosage                *)
(***************************************************************************)
\* C25: calculate_dosage never modifies the shared DRUG_DATABASE: after any
\* sequence of calls every entry is unchanged, and the result for a given
\* (drug, age, weight) is the same as on the first call (the warnings do not
\* accumulate).  For age < 65 the local name warnings is the list stored in
\* the database, and the pediatric branch appends to it, so this does not
\* hold.
C25_DatabaseNeverModified ==
    /\ DRUG_DATABASE = DrugDatabaseAtImport
    /\ \A i, j \in 1..Len(ds_calls) :
          ds_calls[i].call = ds_calls[j].call =>
              ds_calls[i].result = ds_calls[j].result

(***************************************************************************)
(* Properties of MedicalNERExtractor, checked under SpecNer                *)
(***************************************************************************)
\* the names of the entries extract_drug_info returned from the rule-based
\* extractor, lower-cased and trimmed
RuleBasedKeys == [k \in 1..Len(ner_result) |-> Strip(Lower(ner_result[k].drug_name))]

\* extract_drug_info returned what _rule_based_extraction returned
RuleBasedReturned ==
    /\ ner_pc = "returned"
    /\ \E i \in 1..Len(ner_trace) : ner_trace[i] = "_rule_based_extraction"

\* C29: _rule_based_extraction returns at most one entry per drug: no two
\* entries of its result have drug names that are equal after lower-casing
\* and trimming.  The code collects the candidates in a set of names as
\* written, so "aspirin" found by a pattern and "Aspirin" added from the
\* list of common drugs are two entries; this does not hold.
C29_OneEntryPerDrug ==
    RuleBasedReturned =>
        \A j, k \in 1..Len(ner_result) :
            RuleBasedKeys[j] = RuleBasedKeys[k] => j = k

\* what the claim calls an answer of GatorTron without error: the dict
\* query_gatortron returned has no "error" and has "drugs"
AnsweredWithoutError ==
    /\ "result" \in DOMAIN ner_call
    /\ "error" \notin DOMAIN ner_call.result
    /\ "drugs" \in DOMAIN ner_call.result

\* the drug name an entry of GatorTron carries, and any other field of it
NameOf(entry) ==
    IF "drug_name" \in DOMAIN entry.v THEN entry.v["drug_name"]
    ELSE IF "name" \in DOMAIN entry.v THEN entry.v["name"]
    ELSE PyStr("")
FieldOf(entry, field) ==
    IF field \in DOMAIN entry.v THEN entry.v[field] ELSE PyStr("")

\* the entries of GatorTron's answer that have a non-empty drug name
NamedEntries ==
    IF AnsweredWithoutError /\ ner_call.result.drugs.t = "list"
    THEN SelectSeq(ner_call.result.drugs.v,
                   LAMBDA entry : entry.t = "dict" /\ Truthy(NameOf(entry)))
    ELSE <<>>

\* C24: extract_drug_info returns [] for empty or blank text without
\* querying any engine; when GatorTron answers without error with at least
\* one entry that has a non-empty drug name, exactly those entries are
\* returned, each with drug_name, dosage, frequency and route, and the
\* rule-based extractor is not run; in every other case (request error,
\* exception, error result, no named drug) the call returns the rule-based
\* result.
C24_GatorTronThenRuleBased ==
    ner_pc = "returned" =>
        IF Strip(ner_call.medical_text) = ""
        THEN ner_trace = <<>> /\ ner_result = <<>>
        ELSE IF Len(NamedEntries) > 0
        THEN /\ ner_trace = <<"query_gatortron">>
             /\ Len(ner_result) = Len(NamedEntries)
             /\ \A k \in 1..Len(NamedEntries) :
                   /\ DOMAIN ner_result[k] =
                          {"drug_name", "dosage", "frequency", "route"}
                   /\ ner_result[k].drug_name = NameOf(NamedEntries[k])
                   /\ \A field \in {"dosage", "frequency", "route"} :
                          ner_result[k][field] = FieldOf(NamedEntries[k], field)
        ELSE /\ ner_trace = <<"query_gatortron", "_rule_based_extraction">>
             /\ Len(ner_result) = Cardinality(RuleBasedOf[ner_call.medical_text])
             /\ {ner_result[k] : k \in 1..Len(ner_result)} =
                    RuleBasedOf[ner_call.medical_text]

\* GatorTron answered with a named entry among entries without a name, and
\* the call returned
C24_Witness ==
    /\ ner_pc = "returned"
    /\ Len(NamedEntries) > 0
    /\ Len(NamedEntries) < Len(ner_call.result.drugs.v)
    /\ ner_trace = <<"query_gatortron">>

====
